---- MODULE Spec2Model ----
(***************************************************************************)
(* State-machine model of the safepoint coordinator                        *)
(* (src/hotspot/share/runtime/safepoint.cpp), of its cleanup dispatcher    *)
(* and of the JVMTI raw monitor (src/hotspot/share/prims/                  *)
(* jvmtiRawMonitor.cpp).  One action per atomic step of the code: a step   *)
(* is one access to memory shared between threads, together with the       *)
(* thread-private computation around it.                                   *)
(***************************************************************************)
EXTENDS Integers, Sequences, FiniteSets, TLC

(***************************************************************************)
(* Bounds of the model.                                                    *)
(***************************************************************************)
\* Number of Java threads (workers) that exist at start.
NumWorkers == 2
\* Number of safepoints the VM thread runs (the counter stops at twice this).
MaxSafepoints == 2

\* static_cast<int>(uint64_t) keeps the low bits of the counter.  The width
\* of the source is 32 bits; the model keeps 30 so that every value fits the
\* integers of the model checker.
IntModulus == 1073741824

Workers == 1..NumWorkers

\* The reserved counter value (safepoint.cpp:129).
InactiveSafepointCounter == 0

\* SynchronizeState.
SynchronizeStates == {"_not_synchronized", "_synchronizing", "_synchronized"}

\* JavaThreadState values the model uses.
JavaThreadStates == {"_thread_in_Java", "_thread_in_native",
                     "_thread_in_native_trans", "_thread_blocked"}

VARIABLES
  \* ---- SafepointSynchronize statics
  state,                     \* _state
  safepoint_counter,         \* _safepoint_counter
  waiting_to_block,          \* _waiting_to_block
  current_jni_active_count,  \* _current_jni_active_count
  wait_barrier,              \* the tag of _wait_barrier, 0 when disarmed
  Threads_lock,              \* "free" or "vm"
  \* ---- the VM thread inside begin()/end()
  vmpc,                      \* position of the VM thread
  nof_threads,               \* local of begin()
  todo,                      \* threads the current iteration still visits
  tss,                       \* the list tss_head of synchronize_threads
  still_running,             \* local of synchronize_threads
  first_pass,                \* TRUE in the loop of lines 214-223
  initial_running,           \* *initial_running
  ld_state,                  \* *state of try_stable_load_state
  \* ---- per Java thread
  registered,                \* the threads on the thread list
  thread_state,              \* JavaThread::_thread_state
  safepoint_id,              \* ThreadSafepointState::_safepoint_id
  safepoint_safe,            \* ThreadSafepointState::_safepoint_safe
  local_poll,                \* the thread-local poll word, TRUE when armed
  is_ext_suspended,          \* JavaThread::is_ext_suspended()
  in_critical,               \* JavaThread::in_critical()
  walkable,                  \* frame anchor walkable (or no Java frame)
  wpc,                       \* position of the thread
  blk_state,                 \* local 'state' of block()
  blk_id,                    \* local 'safepoint_id' of block()
  \* ---- the safepoint timeout
  SafepointTimeout,          \* the flag SafepointTimeout
  AbortVMOnSafepointTimeout, \* the flag AbortVMOnSafepointTimeout
  limit_passed,              \* safepoint_limit_time < os::javaTimeNanos()
  timeout_error_printed,     \* the static timeout_error_printed
  timeout_reports,           \* history: the reports print_safepoint_timeout logged
  \* ---- ParallelSPCleanupTask
  num_workers,               \* _num_workers, 0 while no task object exists
  subtasks_claimed,          \* SubTasksDone: the claimed flag of each subtask
  threads_completed,         \* SubTasksDone::_threads_completed
  cpc,                       \* position of each cleanup thread in work()
  claim_wins,                \* per subtask: try_claim_task calls that returned true
  task_runs,                 \* per subtask: executions of the subtask's operation
  needs_rehashing,           \* SymbolTable/StringTable::_needs_rehashing
  \* ---- JvmtiRawMonitor (one monitor)
  owner,                     \* _owner, NULL when the monitor is free
  recursions,                \* _recursions
  entry_list,                \* _entry_list, the head first
  wait_set,                  \* _wait_set, the head first
  waiters,                   \* _waiters
  RawMonitor_lock,           \* the thread that holds RawMonitor_lock, or NULL
  \* ---- per thread that uses the monitor
  mpc,                       \* position of the thread
  cont,                      \* where simple_enter/simple_exit returns to
  t_state,                   \* QNode::_t_state of the thread's node
  park_event,                \* Thread::_ParkEvent, TRUE when set
  save,                      \* local 'save' of raw_wait
  ret,                       \* the code the last call returned / local 'ret'
  w,                         \* local 'w' of simple_exit
  ev,                        \* local 'ev' of simple_notify
  millis,                    \* argument of raw_wait (0: no timeout)
  all,                       \* argument of simple_notify
  external_suspend,          \* JavaThread::is_external_suspend()
  interrupted,               \* the interrupt state of the JavaThread
  \* ---- history variables
  depth,                     \* raw_enter calls returned minus raw_exit calls
  enq_order,                 \* the queued contenders, the first enqueued first
  woken_rank,                \* place of 'w' among the queued when it was unlinked
  aborted,                   \* a guarantee() has failed
  wait_call,                 \* what raw_wait found when it was called
  jthreads,                  \* the threads that are JavaThreads
  jvmti,                     \* position and calls of the thread in RawMonitorEnter
  \* ---- the C heap storage of raw monitors and the agent's handles
  magic,                     \* the word _magic of the storage at each address
  rm_at,                     \* history: the monitor that lives at each address
  handles,                   \* the handles the agent was given
  validated,                 \* history: the last is_valid() call
  \* ---- SafepointSynchronize::handshake_safe
  hs,                        \* the thread asked about, the id read, the result
  \* ---- the special runtime exit conditions of each Java thread
  special_condition,         \* the pending conditions of the thread
  special_handled,           \* history: the last call of the handler in block()
  \* ---- the safepoint counter at its full width
  arming                     \* the 64-bit counter and the tags made from it

spglobals == <<state, safepoint_counter, waiting_to_block,
               current_jni_active_count, wait_barrier, Threads_lock>>
vmlocals  == <<vmpc, nof_threads, todo, tss, still_running, first_pass,
               initial_running, ld_state>>
perthread == <<registered, thread_state, safepoint_id, safepoint_safe,
               local_poll, is_ext_suspended, in_critical, walkable, wpc,
               blk_state, blk_id>>

cleanupvars == <<num_workers, subtasks_claimed, threads_completed, cpc,
                 claim_wins, task_runs, needs_rehashing>>

rmvars == <<owner, recursions, entry_list, wait_set, waiters,
            RawMonitor_lock, mpc, cont, t_state, park_event, save, ret, w,
            ev, millis, all, external_suspend, interrupted, depth,
            enq_order, woken_rank, aborted,
            wait_call,
            jthreads,
            jvmti>>

handlevars == <<magic, rm_at, handles, validated>>

exitvars == <<special_condition, special_handled>>

monvars == <<rmvars, handlevars, hs, exitvars, arming>>

timeoutvars == <<SafepointTimeout, AbortVMOnSafepointTimeout, limit_passed,
                 timeout_error_printed, timeout_reports>>

safepointvars == <<spglobals, vmlocals, perthread, cleanupvars, timeoutvars>>

vars == <<spglobals, vmlocals, perthread, cleanupvars, timeoutvars, monvars>>

\* The next thread a JavaThreadIteratorWithHandle (or the tss list) yields.
NextThread(S) == CHOOSE t \in S : \A u \in S : t <= u

\* static_cast<int>(x)
static_cast_int(x) == x % IntModulus

(***************************************************************************)
(* Initial state: the VM has started, no safepoint has run, every worker   *)
(* executes Java code.                                                     *)
(***************************************************************************)
\* The flags and the static timeout_error_printed (false).
TimeoutStart(flag, abort) ==
  /\ SafepointTimeout = flag
  /\ AbortVMOnSafepointTimeout = abort
  /\ limit_passed = FALSE
  /\ timeout_error_printed = FALSE
  /\ timeout_reports = << >>

\* The default of both flags.
TimeoutOff == TimeoutStart(FALSE, FALSE)

\* handshake_safe() is not running.
NoHandshake == [thread |-> 0, sid |-> 0, result |-> "none"]

\* The conditions has_special_runtime_exit_condition() tests: a pending
\* external suspend request and a pending asynchronous exception.
SpecialConditions == {"suspend", "async"}

\* No handler call of block() so far.
NotHandled == [origin |-> "none", check_asyncs |-> FALSE]

\* The width of the pieces the 64-bit counter is kept in: 16 bits.
LimbBase == 65536

\* The counter 0 as four pieces of 16 bits, the lowest first.
ZeroCounter == <<0, 0, 0, 0>>

\* The full-width counter is not followed.
NotArming == [counter |-> ZeroCounter, barrier |-> 0, worker_tag |-> 0,
              prev_tag |-> 0, pc |-> "off", runs |-> 0]

\* No thread has a pending condition.
NoSpecial ==
  /\ special_condition = [t \in Workers |-> {}]
  /\ special_handled = [t \in Workers |-> NotHandled]

SafepointInit ==
  /\ state = "_not_synchronized"
  /\ safepoint_counter = 0
  /\ waiting_to_block = 0
  /\ current_jni_active_count = 0
  /\ wait_barrier = 0
  /\ Threads_lock = "free"
  /\ vmpc = "idle"
  /\ nof_threads = 0
  /\ todo = {}
  /\ tss = {}
  /\ still_running = 0
  /\ first_pass = FALSE
  /\ initial_running = 0
  /\ ld_state = "_thread_in_Java"
  /\ hs = NoHandshake
  /\ NoSpecial
  /\ arming = NotArming
  /\ registered = Workers
  /\ thread_state = [t \in Workers |-> "_thread_in_Java"]
  /\ safepoint_id = [t \in Workers |-> InactiveSafepointCounter]
  /\ safepoint_safe = [t \in Workers |-> FALSE]
  /\ local_poll = [t \in Workers |-> FALSE]
  /\ is_ext_suspended = [t \in Workers |-> FALSE]
  /\ in_critical = [t \in Workers |-> FALSE]
  /\ walkable = [t \in Workers |-> FALSE]
  /\ wpc = [t \in Workers |-> "java"]
  /\ blk_state = [t \in Workers |-> "_thread_in_Java"]
  /\ blk_id = [t \in Workers |-> 0]

(***************************************************************************)
(* SafepointSynchronize::begin, arm_safepoint, synchronize_threads         *)
(***************************************************************************)

\* Faulty variant: begin() does not wait for Threads_lock.
VM_Begin_unlocked ==
  /\ vmpc = "idle"
  /\ safepoint_counter < 2 * MaxSafepoints
  /\ Threads_lock' = "vm"
  /\ nof_threads' = Cardinality(registered)
  /\ vmpc' = "set_counts"
  /\ UNCHANGED <<state, safepoint_counter, waiting_to_block,
                 current_jni_active_count, wait_barrier>>
  /\ UNCHANGED <<todo, tss, still_running, first_pass, initial_running, ld_state>>
  /\ UNCHANGED perthread
  /\ UNCHANGED <<cleanupvars, monvars, timeoutvars>>

\* begin(): Threads_lock->lock(); nof_threads = Threads::number_of_threads().
VM_Begin ==
  /\ vmpc = "idle"
  /\ safepoint_counter < 2 * MaxSafepoints
  /\ Threads_lock = "free"
  /\ Threads_lock' = "vm"
  /\ nof_threads' = Cardinality(registered)
  /\ vmpc' = "set_counts"
  /\ UNCHANGED <<state, safepoint_counter, waiting_to_block,
                 current_jni_active_count, wait_barrier>>
  /\ UNCHANGED <<todo, tss, still_running, first_pass, initial_running, ld_state>>
  /\ UNCHANGED perthread
  /\ UNCHANGED <<cleanupvars, monvars, timeoutvars>>

\* begin(): _current_jni_active_count = 0; _waiting_to_block = nof_threads.
VM_SetCounts ==
  /\ vmpc = "set_counts"
  /\ current_jni_active_count' = 0
  /\ waiting_to_block' = nof_threads
  /\ vmpc' = "arm_barrier"
  /\ limit_passed' = IF SafepointTimeout THEN FALSE ELSE limit_passed
  /\ timeout_error_printed' =
       IF SafepointTimeout THEN FALSE ELSE timeout_error_printed
  /\ UNCHANGED <<state, safepoint_counter, wait_barrier, Threads_lock>>
  /\ UNCHANGED <<nof_threads, todo, tss, still_running, first_pass,
                 initial_running, ld_state>>
  /\ UNCHANGED perthread
  /\ UNCHANGED <<cleanupvars, monvars>>
  /\ UNCHANGED <<SafepointTimeout, AbortVMOnSafepointTimeout, timeout_reports>>

\* WaitBarrier::arm(tag): the barrier holds the tag until it is disarmed.
WaitBarrier_arm(tag) == tag

\* WaitBarrier::disarm(): the tag is 0 again, every waiter is released.
WaitBarrier_disarm == 0

\* WaitBarrier::wait(tag) returns when the barrier does not hold the tag.
WaitBarrier_may_return(tag) == wait_barrier # tag

\* Faulty variant: arm_safepoint() arms the barrier with the current counter.
VM_ArmBarrier_current ==
  /\ vmpc = "arm_barrier"
  /\ wait_barrier' = WaitBarrier_arm(static_cast_int(safepoint_counter))
  /\ vmpc' = "store_counter"
  /\ UNCHANGED <<state, safepoint_counter, waiting_to_block,
                 current_jni_active_count, Threads_lock>>
  /\ UNCHANGED <<nof_threads, todo, tss, still_running, first_pass,
                 initial_running, ld_state>>
  /\ UNCHANGED perthread
  /\ UNCHANGED <<cleanupvars, monvars, timeoutvars>>

\* arm_safepoint(): _wait_barrier->arm(static_cast<int>(_safepoint_counter + 1)).
VM_ArmBarrier ==
  /\ vmpc = "arm_barrier"
  /\ wait_barrier' = WaitBarrier_arm(static_cast_int(safepoint_counter + 1))
  /\ vmpc' = "store_counter"
  /\ UNCHANGED <<state, safepoint_counter, waiting_to_block,
                 current_jni_active_count, Threads_lock>>
  /\ UNCHANGED <<nof_threads, todo, tss, still_running, first_pass,
                 initial_running, ld_state>>
  /\ UNCHANGED perthread
  /\ UNCHANGED <<cleanupvars, monvars, timeoutvars>>

\* arm_safepoint(): release_store(&_safepoint_counter, _safepoint_counter + 1).
VM_StoreCounterOdd ==
  /\ vmpc = "store_counter"
  /\ safepoint_counter' = safepoint_counter + 1
  /\ vmpc' = "set_synchronizing"
  /\ UNCHANGED <<state, waiting_to_block, current_jni_active_count,
                 wait_barrier, Threads_lock>>
  /\ UNCHANGED <<nof_threads, todo, tss, still_running, first_pass,
                 initial_running, ld_state>>
  /\ UNCHANGED perthread
  /\ UNCHANGED <<cleanupvars, monvars, timeoutvars>>

\* Faulty variant: arm_safepoint() does not store _state = _synchronizing.
VM_SetSynchronizing_forgotten ==
  /\ vmpc = "set_synchronizing"
  /\ todo' = registered
  /\ vmpc' = "arm_polls"
  /\ UNCHANGED spglobals
  /\ UNCHANGED <<nof_threads, tss, still_running, first_pass,
                 initial_running, ld_state>>
  /\ UNCHANGED perthread
  /\ UNCHANGED <<cleanupvars, monvars, timeoutvars>>

\* arm_safepoint(): _state = _synchronizing; the iteration over the threads starts.
VM_SetSynchronizing ==
  /\ vmpc = "set_synchronizing"
  /\ state' = "_synchronizing"
  /\ todo' = registered
  /\ vmpc' = "arm_polls"
  /\ UNCHANGED <<safepoint_counter, waiting_to_block, current_jni_active_count,
                 wait_barrier, Threads_lock>>
  /\ UNCHANGED <<nof_threads, tss, still_running, first_pass,
                 initial_running, ld_state>>
  /\ UNCHANGED perthread
  /\ UNCHANGED <<cleanupvars, monvars, timeoutvars>>

\* arm_safepoint(): SafepointMechanism::arm_local_poll(cur), one thread per step.
VM_ArmPoll ==
  /\ vmpc = "arm_polls"
  /\ todo # {}
  /\ LET cur == NextThread(todo) IN
       /\ local_poll' = [local_poll EXCEPT ![cur] = TRUE]
       /\ todo' = todo \ {cur}
  /\ UNCHANGED spglobals
  /\ UNCHANGED <<vmpc, nof_threads, tss, still_running, first_pass,
                 initial_running, ld_state>>
  /\ UNCHANGED <<registered, thread_state, safepoint_id, safepoint_safe,
                 is_ext_suspended, in_critical, walkable, wpc, blk_state, blk_id>>
  /\ UNCHANGED <<cleanupvars, monvars, timeoutvars>>

\* arm_safepoint() returns after the fence; synchronize_threads() starts its
\* first iteration over all threads with still_running = nof_threads.
VM_StartSynchronize ==
  /\ vmpc = "arm_polls"
  /\ todo = {}
  /\ todo' = registered
  /\ tss' = {}
  /\ still_running' = nof_threads
  /\ first_pass' = TRUE
  /\ vmpc' = "ex_state"
  /\ UNCHANGED spglobals
  /\ UNCHANGED <<nof_threads, initial_running, ld_state>>
  /\ UNCHANGED perthread
  /\ UNCHANGED <<cleanupvars, monvars, timeoutvars>>

\* The thread the VM thread examines at the moment.
cur_thread == NextThread(todo)

\* synchronize_threads(): thread_not_running(cur_tss) returned false: the
\* thread stays on (or is put on) the list of running threads.
StillRunning ==
  /\ tss' = tss \cup {cur_thread}
  /\ todo' = todo \ {cur_thread}
  /\ ld_state' = "_thread_in_Java"
  /\ vmpc' = "ex_state"
  /\ UNCHANGED <<still_running, waiting_to_block, current_jni_active_count,
                 safepoint_safe>>

\* Faulty variant: account_safe_thread() does not decrement
\* _waiting_to_block.
account_safe_thread_uncounted ==
  /\ UNCHANGED waiting_to_block
  /\ current_jni_active_count' =
       IF in_critical[cur_thread] THEN current_jni_active_count + 1
                                  ELSE current_jni_active_count
  /\ safepoint_safe' = [safepoint_safe EXCEPT ![cur_thread] = TRUE]
  /\ still_running' = still_running - 1
  /\ tss' = tss
  /\ todo' = todo \ {cur_thread}
  /\ ld_state' = "_thread_in_Java"
  /\ vmpc' = "ex_state"

\* ThreadSafepointState::account_safe_thread(), then thread_not_running()
\* returns true and synchronize_threads() does --still_running.
account_safe_thread ==
  /\ waiting_to_block' = waiting_to_block - 1
  /\ current_jni_active_count' =
       IF in_critical[cur_thread] THEN current_jni_active_count + 1
                                  ELSE current_jni_active_count
  /\ safepoint_safe' = [safepoint_safe EXCEPT ![cur_thread] = TRUE]
  /\ still_running' = still_running - 1
  /\ tss' = tss
  /\ todo' = todo \ {cur_thread}
  /\ ld_state' = "_thread_in_Java"
  /\ vmpc' = "ex_state"

\* try_stable_load_state(): *state = thread->thread_state().
VM_LoadState ==
  /\ vmpc = "ex_state"
  /\ todo # {}
  /\ ld_state' = thread_state[cur_thread]
  /\ vmpc' = "ex_id"
  /\ UNCHANGED spglobals
  /\ UNCHANGED <<nof_threads, todo, tss, still_running, first_pass, initial_running>>
  /\ UNCHANGED perthread
  /\ UNCHANGED <<cleanupvars, monvars, timeoutvars>>

\* Faulty variant: the id of the thread is not compared with the counter.
stable_safepoint_id_unchecked(sid, safepoint_count) == TRUE

\* The id test of try_stable_load_state(): an id that is neither inactive nor
\* the current counter makes the read unstable.
stable_safepoint_id(sid, safepoint_count) ==
  ~ (sid # InactiveSafepointCounter /\ sid # safepoint_count)

\* try_stable_load_state(): sid = get_safepoint_id().
VM_LoadId ==
  /\ vmpc = "ex_id"
  /\ IF stable_safepoint_id(safepoint_id[cur_thread], safepoint_counter)
       THEN /\ vmpc' = "ex_reload"
            /\ UNCHANGED <<todo, tss, still_running, waiting_to_block,
                           current_jni_active_count, safepoint_safe, ld_state>>
       ELSE StillRunning
  /\ UNCHANGED <<state, safepoint_counter, wait_barrier, Threads_lock>>
  /\ UNCHANGED <<nof_threads, first_pass, initial_running>>
  /\ UNCHANGED <<registered, thread_state, safepoint_id, local_poll,
                 is_ext_suspended, in_critical, walkable, wpc, blk_state, blk_id>>
  /\ UNCHANGED <<cleanupvars, monvars, timeoutvars>>

\* Faulty variant: try_stable_load_state() does not read the state again.
VM_ReloadState_unchecked ==
  /\ vmpc = "ex_reload"
  /\ vmpc' = "ex_classify"
  /\ UNCHANGED <<todo, tss, still_running, waiting_to_block,
                 current_jni_active_count, safepoint_safe, ld_state>>
  /\ UNCHANGED <<state, safepoint_counter, wait_barrier, Threads_lock>>
  /\ UNCHANGED <<nof_threads, first_pass, initial_running>>
  /\ UNCHANGED <<registered, thread_state, safepoint_id, local_poll,
                 is_ext_suspended, in_critical, walkable, wpc, blk_state, blk_id>>
  /\ UNCHANGED <<cleanupvars, monvars, timeoutvars>>

\* try_stable_load_state(): return *state == thread->thread_state().
VM_ReloadState ==
  /\ vmpc = "ex_reload"
  /\ IF ld_state = thread_state[cur_thread]
       THEN /\ vmpc' = "ex_classify"
            /\ UNCHANGED <<todo, tss, still_running, waiting_to_block,
                           current_jni_active_count, safepoint_safe, ld_state>>
       ELSE StillRunning
  /\ UNCHANGED <<state, safepoint_counter, wait_barrier, Threads_lock>>
  /\ UNCHANGED <<nof_threads, first_pass, initial_running>>
  /\ UNCHANGED <<registered, thread_state, safepoint_id, local_poll,
                 is_ext_suspended, in_critical, walkable, wpc, blk_state, blk_id>>
  /\ UNCHANGED <<cleanupvars, monvars, timeoutvars>>

\* Faulty variant: the case _thread_blocked is missing.
safepoint_safe_with_native_only(t, st) ==
  st = "_thread_in_native" /\ walkable[t]

\* Faulty variant: only _thread_blocked is safe.
safepoint_safe_with_blocked_only(t, st) ==
  st = "_thread_blocked"

\* safepoint_safe_with(thread, state)
safepoint_safe_with(t, st) ==
  CASE st = "_thread_in_native" -> walkable[t]
    [] st = "_thread_blocked"   -> TRUE
    [] OTHER                    -> FALSE

\* Faulty variant: examine_state_of_thread() accounts only suspended threads
\* safe.
examine_accounts_safe_suspended_only(t, st) ==
  is_ext_suspended[t]

\* Faulty variant: examine_state_of_thread() takes every thread in a native
\* method for safe.
examine_accounts_safe_any_native(t, st) ==
  is_ext_suspended[t] \/ st \in {"_thread_in_native", "_thread_blocked"}

\* examine_state_of_thread() after a stable read: a suspended thread and a
\* thread that is safepoint_safe_with its state are accounted safe.
examine_accounts_safe(t, st) ==
  is_ext_suspended[t] \/ safepoint_safe_with(t, st)

VM_Classify ==
  /\ vmpc = "ex_classify"
  /\ IF examine_accounts_safe(cur_thread, ld_state)
       THEN account_safe_thread
       ELSE StillRunning
  /\ UNCHANGED <<state, safepoint_counter, wait_barrier, Threads_lock>>
  /\ UNCHANGED <<nof_threads, first_pass, initial_running>>
  /\ UNCHANGED <<registered, thread_state, safepoint_id, local_poll,
                 is_ext_suspended, in_critical, walkable, wpc, blk_state, blk_id>>
  /\ UNCHANGED <<cleanupvars, monvars, timeoutvars>>

\* The threads print_safepoint_timeout() lists, lines 899-905: those whose
\* safepoint_state()->is_running().
running_threads == {t \in registered : ~ safepoint_safe[t]}

\* Faulty variant: print_safepoint_timeout() reports whatever
\* timeout_error_printed says.
print_safepoint_timeout_repeated ==
  /\ timeout_error_printed' = TRUE
  /\ timeout_reports' =
       Append(timeout_reports,
              [id |-> safepoint_counter, threads |-> running_threads])

\* print_safepoint_timeout(), lines 884-908: the first call of a safepoint
\* sets timeout_error_printed and logs the threads that did not reach the
\* safepoint; later calls log nothing.  The caller takes the fatal() of
\* lines 912-924 when AbortVMOnSafepointTimeout is set.
print_safepoint_timeout ==
  /\ timeout_error_printed' = TRUE
  /\ timeout_reports' =
       IF timeout_error_printed
         THEN timeout_reports
         ELSE Append(timeout_reports,
                     [id |-> safepoint_counter, threads |-> running_threads])

\* os::javaTimeNanos() of line 241 has passed safepoint_limit_time.
TimePasses ==
  /\ SafepointTimeout
  /\ state = "_synchronizing"
  /\ ~ limit_passed
  /\ limit_passed' = TRUE
  /\ UNCHANGED <<spglobals, vmlocals, perthread, cleanupvars, monvars>>
  /\ UNCHANGED <<SafepointTimeout, AbortVMOnSafepointTimeout,
                 timeout_error_printed, timeout_reports>>

\* Faulty variant: the loop ends one thread early (still_running <= 1).
VM_PassDone_early ==
  /\ vmpc = "ex_state"
  /\ todo = {}
  /\ initial_running' = IF first_pass THEN still_running ELSE initial_running
  /\ first_pass' = FALSE
  /\ IF still_running <= 1
       THEN /\ vmpc' = "set_synchronized"
            /\ UNCHANGED <<todo, tss, still_running>>
            /\ UNCHANGED <<timeout_error_printed, timeout_reports>>
       ELSE /\ IF SafepointTimeout /\ limit_passed
                 THEN print_safepoint_timeout
                 ELSE UNCHANGED <<timeout_error_printed, timeout_reports>>
            /\ IF SafepointTimeout /\ limit_passed /\ AbortVMOnSafepointTimeout
                 THEN /\ vmpc' = "fatal"
                      /\ UNCHANGED <<todo, tss>>
                 ELSE /\ vmpc' = "ex_state"
                      /\ todo' = tss
                      /\ tss' = {}
            /\ UNCHANGED still_running
  /\ UNCHANGED spglobals
  /\ UNCHANGED <<nof_threads, ld_state>>
  /\ UNCHANGED perthread
  /\ UNCHANGED <<cleanupvars, monvars>>
  /\ UNCHANGED <<SafepointTimeout, AbortVMOnSafepointTimeout, limit_passed>>

\* synchronize_threads(): the end of one iteration over the threads.  After
\* the first one *initial_running = still_running; the loop ends when
\* still_running <= 0, else the next iteration of the do loop first checks
\* the time (lines 241-243) and then walks the list tss_head.
VM_PassDone ==
  /\ vmpc = "ex_state"
  /\ todo = {}
  /\ initial_running' = IF first_pass THEN still_running ELSE initial_running
  /\ first_pass' = FALSE
  /\ IF still_running <= 0
       THEN /\ vmpc' = "set_synchronized"
            /\ UNCHANGED <<todo, tss, still_running>>
            /\ UNCHANGED <<timeout_error_printed, timeout_reports>>
       ELSE /\ IF SafepointTimeout /\ limit_passed
                 THEN print_safepoint_timeout
                 ELSE UNCHANGED <<timeout_error_printed, timeout_reports>>
            /\ IF SafepointTimeout /\ limit_passed /\ AbortVMOnSafepointTimeout
                 THEN /\ vmpc' = "fatal"
                      /\ UNCHANGED <<todo, tss>>
                 ELSE /\ vmpc' = "ex_state"
                      /\ todo' = tss
                      /\ tss' = {}
            /\ UNCHANGED still_running
  /\ UNCHANGED spglobals
  /\ UNCHANGED <<nof_threads, ld_state>>
  /\ UNCHANGED perthread
  /\ UNCHANGED <<cleanupvars, monvars>>
  /\ UNCHANGED <<SafepointTimeout, AbortVMOnSafepointTimeout, limit_passed>>

\* begin(): _state = _synchronized.
VM_SetSynchronized ==
  /\ vmpc = "set_synchronized"
  /\ state' = "_synchronized"
  /\ vmpc' = "cleanup"
  /\ UNCHANGED <<safepoint_counter, waiting_to_block, current_jni_active_count,
                 wait_barrier, Threads_lock>>
  /\ UNCHANGED <<nof_threads, todo, tss, still_running, first_pass,
                 initial_running, ld_state>>
  /\ UNCHANGED perthread
  /\ UNCHANGED <<cleanupvars, monvars, timeoutvars>>

(***************************************************************************)
(* SafepointSynchronize::end, disarm_safepoint                             *)
(***************************************************************************)

\* Faulty variant: disarm_safepoint() leaves _state at _synchronized.
VM_SetNotSynchronized_skipped ==
  /\ vmpc = "end"
  /\ vmpc' = "end_counter"
  /\ UNCHANGED spglobals
  /\ UNCHANGED <<nof_threads, todo, tss, still_running, first_pass,
                 initial_running, ld_state>>
  /\ UNCHANGED perthread
  /\ UNCHANGED <<cleanupvars, monvars, timeoutvars>>

\* disarm_safepoint(): _state = _not_synchronized.
VM_SetNotSynchronized ==
  /\ vmpc = "end"
  /\ state' = "_not_synchronized"
  /\ vmpc' = "end_counter"
  /\ UNCHANGED <<safepoint_counter, waiting_to_block, current_jni_active_count,
                 wait_barrier, Threads_lock>>
  /\ UNCHANGED <<nof_threads, todo, tss, still_running, first_pass,
                 initial_running, ld_state>>
  /\ UNCHANGED perthread
  /\ UNCHANGED <<cleanupvars, monvars, timeoutvars>>

\* Faulty variant: disarm_safepoint() does not store the even counter.
VM_StoreCounterEven_skipped ==
  /\ vmpc = "end_counter"
  /\ todo' = registered
  /\ vmpc' = "restart"
  /\ UNCHANGED spglobals
  /\ UNCHANGED <<nof_threads, tss, still_running, first_pass,
                 initial_running, ld_state>>
  /\ UNCHANGED perthread
  /\ UNCHANGED <<cleanupvars, monvars, timeoutvars>>

\* disarm_safepoint(): release_store(&_safepoint_counter, _safepoint_counter + 1),
\* then the iteration over the threads is rewound.
VM_StoreCounterEven ==
  /\ vmpc = "end_counter"
  /\ safepoint_counter' = safepoint_counter + 1
  /\ todo' = registered
  /\ vmpc' = "restart"
  /\ UNCHANGED <<state, waiting_to_block, current_jni_active_count,
                 wait_barrier, Threads_lock>>
  /\ UNCHANGED <<nof_threads, tss, still_running, first_pass,
                 initial_running, ld_state>>
  /\ UNCHANGED perthread
  /\ UNCHANGED <<cleanupvars, monvars, timeoutvars>>

\* Faulty variant: the restart loop of disarm_safepoint() leaves the poll
\* word of the thread armed.
VM_Restart_armed ==
  /\ vmpc = "restart"
  /\ todo # {}
  /\ LET cur == NextThread(todo) IN
       /\ safepoint_safe' = [safepoint_safe EXCEPT ![cur] = FALSE]
       /\ UNCHANGED local_poll
       /\ todo' = todo \ {cur}
  /\ UNCHANGED spglobals
  /\ UNCHANGED <<vmpc, nof_threads, tss, still_running, first_pass,
                 initial_running, ld_state>>
  /\ UNCHANGED <<registered, thread_state, safepoint_id, is_ext_suspended,
                 in_critical, walkable, wpc, blk_state, blk_id>>
  /\ UNCHANGED <<cleanupvars, monvars, timeoutvars>>

\* Faulty variant: the restart loop of disarm_safepoint() does not call
\* restart(), so _safepoint_safe stays set.
VM_Restart_still_safe ==
  /\ vmpc = "restart"
  /\ todo # {}
  /\ LET cur == NextThread(todo) IN
       /\ local_poll' = [local_poll EXCEPT ![cur] = FALSE]
       /\ todo' = todo \ {cur}
  /\ UNCHANGED spglobals
  /\ UNCHANGED <<vmpc, nof_threads, tss, still_running, first_pass,
                 initial_running, ld_state>>
  /\ UNCHANGED <<registered, thread_state, safepoint_id, safepoint_safe,
                 is_ext_suspended, in_critical, walkable, wpc, blk_state, blk_id>>
  /\ UNCHANGED <<cleanupvars, monvars, timeoutvars>>

\* disarm_safepoint(): cur_state->restart(); disarm_if_needed(current, false).
VM_Restart ==
  /\ vmpc = "restart"
  /\ todo # {}
  /\ LET cur == NextThread(todo) IN
       /\ safepoint_safe' = [safepoint_safe EXCEPT ![cur] = FALSE]
       /\ local_poll' = [local_poll EXCEPT ![cur] = FALSE]
       /\ todo' = todo \ {cur}
  /\ UNCHANGED spglobals
  /\ UNCHANGED <<vmpc, nof_threads, tss, still_running, first_pass,
                 initial_running, ld_state>>
  /\ UNCHANGED <<registered, thread_state, safepoint_id, is_ext_suspended,
                 in_critical, walkable, wpc, blk_state, blk_id>>
  /\ UNCHANGED <<cleanupvars, monvars, timeoutvars>>

\* Faulty variant: disarm_safepoint() releases Threads_lock without finishing
\* the loop that restarts the threads.
VM_Unlock_early ==
  /\ vmpc = "restart"
  /\ Threads_lock' = "free"
  /\ vmpc' = "disarm"
  /\ UNCHANGED <<state, safepoint_counter, waiting_to_block,
                 current_jni_active_count, wait_barrier>>
  /\ UNCHANGED <<nof_threads, todo, tss, still_running, first_pass,
                 initial_running, ld_state>>
  /\ UNCHANGED perthread
  /\ UNCHANGED <<cleanupvars, monvars, timeoutvars>>

\* disarm_safepoint(): Threads_lock->unlock().
VM_Unlock ==
  /\ vmpc = "restart"
  /\ todo = {}
  /\ Threads_lock' = "free"
  /\ vmpc' = "disarm"
  /\ UNCHANGED <<state, safepoint_counter, waiting_to_block,
                 current_jni_active_count, wait_barrier>>
  /\ UNCHANGED <<nof_threads, todo, tss, still_running, first_pass,
                 initial_running, ld_state>>
  /\ UNCHANGED perthread
  /\ UNCHANGED <<cleanupvars, monvars, timeoutvars>>

\* A disarm_safepoint() that leaves the barrier armed.
VM_Disarm_skipped ==
  /\ vmpc = "disarm"
  /\ vmpc' = "idle"
  /\ UNCHANGED spglobals
  /\ UNCHANGED <<nof_threads, todo, tss, still_running, first_pass,
                 initial_running, ld_state>>
  /\ UNCHANGED perthread
  /\ UNCHANGED <<cleanupvars, monvars, timeoutvars>>

\* disarm_safepoint(): _wait_barrier->disarm(); end() returns.
VM_Disarm ==
  /\ vmpc = "disarm"
  /\ wait_barrier' = WaitBarrier_disarm
  /\ vmpc' = "idle"
  /\ UNCHANGED <<state, safepoint_counter, waiting_to_block,
                 current_jni_active_count, Threads_lock>>
  /\ UNCHANGED <<nof_threads, todo, tss, still_running, first_pass,
                 initial_running, ld_state>>
  /\ UNCHANGED perthread
  /\ UNCHANGED <<cleanupvars, monvars, timeoutvars>>

(***************************************************************************)
(* The cleanup dispatcher: do_cleanup_tasks and ParallelSPCleanupTask::work *)
(***************************************************************************)

\* Largest number of threads of the work gang (active_workers()).
MaxCleanupWorkers == 2

\* The subtasks in the order work() tries to claim them.
CleanupTasks == << "DEFLATE_MONITORS", "UPDATE_INLINE_CACHES",
                   "COMPILATION_POLICY", "SYMBOL_TABLE_REHASH",
                   "STRING_TABLE_REHASH", "CLD_PURGE",
                   "SYSTEM_DICTIONARY_RESIZE" >>

TaskSet == {CleanupTasks[i] : i \in 1..Len(CleanupTasks)}

\* Thread 0 is the VM thread (serial cleanup), 1.. are the gang's threads.
CleanupThreads == 0..MaxCleanupWorkers

\* Subtasks whose operation runs only when needs_rehashing() holds.
RehashTasks == {"SYMBOL_TABLE_REHASH", "STRING_TABLE_REHASH"}

CleanupInit ==
  /\ num_workers = 0
  /\ subtasks_claimed = [k \in TaskSet |-> FALSE]
  /\ threads_completed = 0
  /\ cpc = [g \in CleanupThreads |-> 0]
  /\ claim_wins = [k \in TaskSet |-> 0]
  /\ task_runs = [k \in TaskSet |-> 0]
  /\ needs_rehashing = [k \in RehashTasks |-> FALSE]

\* The threads that run work(): the VM thread when get_safepoint_workers()
\* is NULL (n = 0), else the n active threads of the gang.
CleanupCrew(n) == IF n = 0 THEN {0} ELSE 1..n

\* do_cleanup_tasks(): a ParallelSPCleanupTask is constructed and handed to
\* the gang (cleanup_workers->run_task) or run by the VM thread (work(0)).
\* The tables are in whatever state the Java threads left them: each
\* _needs_rehashing flag is either value, and stays so while work() runs.
VM_StartCleanup(n) ==
  /\ vmpc = "cleanup"
  /\ needs_rehashing' \in [RehashTasks -> BOOLEAN]
  /\ num_workers' = IF n = 0 THEN 1 ELSE n
  /\ subtasks_claimed' = [k \in TaskSet |-> FALSE]
  /\ threads_completed' = 0
  /\ cpc' = [g \in CleanupThreads |-> IF g \in CleanupCrew(n) THEN 1 ELSE 0]
  /\ claim_wins' = [k \in TaskSet |-> 0]
  /\ task_runs' = [k \in TaskSet |-> 0]
  /\ vmpc' = "cleanup_run"
  /\ UNCHANGED spglobals
  /\ UNCHANGED <<nof_threads, todo, tss, still_running, first_pass,
                 initial_running, ld_state>>
  /\ UNCHANGED perthread
  /\ UNCHANGED <<monvars, timeoutvars>>

\* SubTasksDone::try_claim_task(k): a compare-and-swap of the subtask's
\* claimed flag; TRUE for the thread that set it.
try_claim_task(k) == ~ subtasks_claimed[k]

\* Faulty variant: the rehash subtasks call rehash_table() without the test.
runs_operation_always(k) == TRUE

\* Inside a claimed subtask: the rehash subtasks call rehash_table() only
\* if (needs_rehashing()); the other subtasks call their operation.
runs_operation(k) == k \in RehashTasks => needs_rehashing[k]

\* Faulty variant: the subtask is not guarded by try_claim_task.
CleanupClaim_unguarded(g) ==
  /\ cpc[g] \in 1..Len(CleanupTasks)
  /\ LET k == CleanupTasks[cpc[g]] IN
       /\ subtasks_claimed' = [subtasks_claimed EXCEPT ![k] = TRUE]
       /\ claim_wins' = [claim_wins EXCEPT ![k] = @ + 1]
       /\ task_runs' = IF runs_operation(k)
                          THEN [task_runs EXCEPT ![k] = @ + 1]
                          ELSE task_runs
  /\ cpc' = [cpc EXCEPT ![g] = @ + 1]
  /\ UNCHANGED <<num_workers, threads_completed, needs_rehashing>>
  /\ UNCHANGED <<spglobals, vmlocals, perthread, monvars, timeoutvars>>

\* work(): if (_subtasks.try_claim_task(k)) { the subtask }.
CleanupClaim(g) ==
  /\ cpc[g] \in 1..Len(CleanupTasks)
  /\ LET k == CleanupTasks[cpc[g]] IN
       IF try_claim_task(k)
         THEN /\ subtasks_claimed' = [subtasks_claimed EXCEPT ![k] = TRUE]
              /\ claim_wins' = [claim_wins EXCEPT ![k] = @ + 1]
              /\ task_runs' = IF runs_operation(k)
                                 THEN [task_runs EXCEPT ![k] = @ + 1]
                                 ELSE task_runs
         ELSE UNCHANGED <<subtasks_claimed, claim_wins, task_runs>>
  /\ cpc' = [cpc EXCEPT ![g] = @ + 1]
  /\ UNCHANGED <<num_workers, threads_completed, needs_rehashing>>
  /\ UNCHANGED <<spglobals, vmlocals, perthread, monvars, timeoutvars>>

\* work(): _subtasks.all_tasks_completed(_num_workers); work() returns.
CleanupCompleted(g) ==
  /\ cpc[g] = Len(CleanupTasks) + 1
  /\ threads_completed' = threads_completed + 1
  /\ cpc' = [cpc EXCEPT ![g] = @ + 1]
  /\ UNCHANGED <<num_workers, subtasks_claimed, claim_wins, task_runs,
                 needs_rehashing>>
  /\ UNCHANGED <<spglobals, vmlocals, perthread, monvars, timeoutvars>>

\* Every thread of the crew has returned from work().
CleanupJoined ==
  /\ num_workers > 0
  /\ \A g \in CleanupThreads : cpc[g] \in {0, Len(CleanupTasks) + 2}

\* do_cleanup_tasks(): run_task()/work(0) has returned, the task object goes
\* out of scope, begin() returns.
VM_FinishCleanup ==
  /\ vmpc = "cleanup_run"
  /\ CleanupJoined
  /\ num_workers' = 0
  /\ subtasks_claimed' = [k \in TaskSet |-> FALSE]
  /\ threads_completed' = 0
  /\ cpc' = [g \in CleanupThreads |-> 0]
  /\ claim_wins' = [k \in TaskSet |-> 0]
  /\ task_runs' = [k \in TaskSet |-> 0]
  /\ needs_rehashing' = [k \in RehashTasks |-> FALSE]
  /\ vmpc' = "end"
  /\ UNCHANGED spglobals
  /\ nof_threads' = 0
  /\ initial_running' = 0
  /\ UNCHANGED <<todo, tss, still_running, first_pass, ld_state>>
  /\ UNCHANGED perthread
  /\ UNCHANGED <<monvars, timeoutvars>>

\* do_cleanup_tasks() as one step of the VM thread: the serial cleanup
\* cleanup.work(0) from the construction of the task object to its end.
\* Nothing of it outlives the call; begin() returns.
VM_DoCleanup ==
  /\ vmpc = "cleanup"
  /\ vmpc' = "end"
  /\ nof_threads' = 0
  /\ initial_running' = 0
  /\ UNCHANGED spglobals
  /\ UNCHANGED <<todo, tss, still_running, first_pass, ld_state>>
  /\ UNCHANGED perthread
  /\ UNCHANGED <<cleanupvars, monvars, timeoutvars>>

(***************************************************************************)
(* The Java threads: polls, state transitions, SafepointSynchronize::block *)
(***************************************************************************)

wframe == <<spglobals, vmlocals, cleanupvars, monvars, timeoutvars>>

\* A poll in Java code: the thread-local poll word is armed, the thread
\* enters the slow path, which calls block().
Poll(t) ==
  /\ wpc[t] = "java"
  /\ local_poll[t]
  /\ wpc' = [wpc EXCEPT ![t] = "blk_load"]
  /\ UNCHANGED <<registered, thread_state, safepoint_id, safepoint_safe,
                 local_poll, is_ext_suspended, in_critical, walkable,
                 blk_state, blk_id>>
  /\ UNCHANGED wframe

\* The native methods of thread 1 are critical natives (the thread is
\* in_critical() while it runs one), those of the other threads are not.
calls_critical_native(t) == t = 1

\* Java code calls a native method: the wrapper publishes the last Java
\* frame and stores _thread_in_native.
CallNative(t) ==
  /\ wpc[t] = "java"
  /\ thread_state' = [thread_state EXCEPT ![t] = "_thread_in_native"]
  /\ walkable' = [walkable EXCEPT ![t] = TRUE]
  /\ in_critical' = [in_critical EXCEPT ![t] = calls_critical_native(t)]
  /\ wpc' = [wpc EXCEPT ![t] = "native"]
  /\ UNCHANGED <<registered, safepoint_id, safepoint_safe, local_poll,
                 is_ext_suspended, blk_state, blk_id>>
  /\ UNCHANGED wframe

\* The native method returns: the thread stores _thread_in_native_trans.
ReturnNative(t) ==
  /\ wpc[t] = "native"
  /\ thread_state' = [thread_state EXCEPT ![t] = "_thread_in_native_trans"]
  /\ in_critical' = [in_critical EXCEPT ![t] = FALSE]
  /\ wpc' = [wpc EXCEPT ![t] = "trans"]
  /\ UNCHANGED <<registered, safepoint_id, safepoint_safe, local_poll,
                 is_ext_suspended, walkable, blk_state, blk_id>>
  /\ UNCHANGED wframe

\* In the transition the thread honors an external suspend request.
SuspendSelf(t) ==
  /\ wpc[t] = "trans"
  /\ is_ext_suspended' = [is_ext_suspended EXCEPT ![t] = TRUE]
  /\ wpc' = [wpc EXCEPT ![t] = "suspended"]
  /\ UNCHANGED <<registered, thread_state, safepoint_id, safepoint_safe,
                 local_poll, in_critical, walkable, blk_state, blk_id>>
  /\ UNCHANGED wframe

\* A resume takes the Threads_lock, so it waits while the VM thread holds it.
Resume(t) ==
  /\ wpc[t] = "suspended"
  /\ Threads_lock = "free"
  /\ is_ext_suspended' = [is_ext_suspended EXCEPT ![t] = FALSE]
  /\ wpc' = [wpc EXCEPT ![t] = "trans"]
  /\ UNCHANGED <<registered, thread_state, safepoint_id, safepoint_safe,
                 local_poll, in_critical, walkable, blk_state, blk_id>>
  /\ UNCHANGED wframe

\* The poll on the transition edge: an armed poll leads into block().
TransPoll(t) ==
  /\ wpc[t] = "trans"
  /\ wpc' = [wpc EXCEPT ![t] = IF local_poll[t] THEN "blk_load" ELSE "trans_done"]
  /\ UNCHANGED <<registered, thread_state, safepoint_id, safepoint_safe,
                 local_poll, is_ext_suspended, in_critical, walkable,
                 blk_state, blk_id>>
  /\ UNCHANGED wframe

\* The transition completes: the thread stores _thread_in_Java.
TransDone(t) ==
  /\ wpc[t] = "trans_done"
  /\ thread_state' = [thread_state EXCEPT ![t] = "_thread_in_Java"]
  /\ walkable' = [walkable EXCEPT ![t] = FALSE]
  /\ wpc' = [wpc EXCEPT ![t] = "java"]
  /\ UNCHANGED <<registered, safepoint_id, safepoint_safe, local_poll,
                 is_ext_suspended, in_critical, blk_state, blk_id>>
  /\ UNCHANGED wframe

\* A thread leaves the thread list under the Threads_lock and terminates.
Unregister(t) ==
  /\ wpc[t] = "java"
  /\ Threads_lock = "free"
  /\ registered' = registered \ {t}
  /\ wpc' = [wpc EXCEPT ![t] = "terminated"]
  /\ UNCHANGED <<thread_state, safepoint_id, safepoint_safe, local_poll,
                 is_ext_suspended, in_critical, walkable, blk_state, blk_id>>
  /\ UNCHANGED wframe

(***************************************************************************)
(* The exit of a JavaThread, step by step.  JavaThread::exit runs in the   *)
(* state _thread_in_vm; Threads::remove takes Threads_lock, and a          *)
(* JavaThread that finds the lock held waits for it in the state           *)
(* _thread_blocked.  begin() relies on it: "By getting the Threads_lock,   *)
(* we assure that no threads are about to start or exit" (lines 359-360).  *)
(***************************************************************************)

\* The thread leaves Java code and starts to exit.
Exit_Start(t) ==
  /\ wpc[t] = "java"
  /\ thread_state' = [thread_state EXCEPT ![t] = "_thread_in_vm"]
  /\ wpc' = [wpc EXCEPT ![t] = "exit_lock"]
  /\ UNCHANGED registered
  /\ UNCHANGED <<safepoint_id, safepoint_safe, local_poll, is_ext_suspended,
                 in_critical, walkable, blk_state, blk_id>>
  /\ UNCHANGED wframe

\* Threads::remove locks Threads_lock: the thread takes the free lock, or
\* becomes _thread_blocked and waits.
Exit_Lock(t) ==
  /\ wpc[t] = "exit_lock"
  /\ IF Threads_lock = "free"
       THEN /\ Threads_lock' = "java"
            /\ wpc' = [wpc EXCEPT ![t] = "exit_remove"]
            /\ UNCHANGED thread_state
       ELSE /\ thread_state' = [thread_state EXCEPT ![t] = "_thread_blocked"]
            /\ wpc' = [wpc EXCEPT ![t] = "exit_wait"]
            /\ UNCHANGED Threads_lock
  /\ UNCHANGED registered
  /\ UNCHANGED <<safepoint_id, safepoint_safe, local_poll, is_ext_suspended,
                 in_critical, walkable, blk_state, blk_id>>
  /\ UNCHANGED <<state, safepoint_counter, waiting_to_block,
                 current_jni_active_count, wait_barrier>>
  /\ UNCHANGED <<vmlocals, cleanupvars, monvars, timeoutvars>>

\* The waiting thread gets the lock once it is free and is in the VM again.
Exit_Wake(t) ==
  /\ wpc[t] = "exit_wait"
  /\ Threads_lock = "free"
  /\ Threads_lock' = "java"
  /\ thread_state' = [thread_state EXCEPT ![t] = "_thread_in_vm"]
  /\ wpc' = [wpc EXCEPT ![t] = "exit_remove"]
  /\ UNCHANGED registered
  /\ UNCHANGED <<safepoint_id, safepoint_safe, local_poll, is_ext_suspended,
                 in_critical, walkable, blk_state, blk_id>>
  /\ UNCHANGED <<state, safepoint_counter, waiting_to_block,
                 current_jni_active_count, wait_barrier>>
  /\ UNCHANGED <<vmlocals, cleanupvars, monvars, timeoutvars>>

\* Threads::remove takes the thread off the list and unlocks Threads_lock;
\* the thread is terminated.
Exit_Remove(t) ==
  /\ wpc[t] = "exit_remove"
  /\ registered' = registered \ {t}
  /\ Threads_lock' = "free"
  /\ wpc' = [wpc EXCEPT ![t] = "terminated"]
  /\ UNCHANGED thread_state
  /\ UNCHANGED <<safepoint_id, safepoint_safe, local_poll, is_ext_suspended,
                 in_critical, walkable, blk_state, blk_id>>
  /\ UNCHANGED <<state, safepoint_counter, waiting_to_block,
                 current_jni_active_count, wait_barrier>>
  /\ UNCHANGED <<vmlocals, cleanupvars, monvars, timeoutvars>>

\* block(): state = thread->thread_state(); make_walkable();
\* safepoint_id = SafepointSynchronize::safepoint_counter().
Block_Load(t) ==
  /\ wpc[t] = "blk_load"
  /\ blk_state' = [blk_state EXCEPT ![t] = thread_state[t]]
  /\ walkable' = [walkable EXCEPT ![t] = TRUE]
  /\ blk_id' = [blk_id EXCEPT ![t] = safepoint_counter]
  /\ wpc' = [wpc EXCEPT ![t] = "blk_set_id"]
  /\ UNCHANGED <<registered, thread_state, safepoint_id, safepoint_safe,
                 local_poll, is_ext_suspended, in_critical>>
  /\ UNCHANGED wframe

\* Faulty variant: block() stores the id only when the counter it read is odd.
Block_SetId_odd_only(t) ==
  /\ wpc[t] = "blk_set_id"
  /\ safepoint_id' = [safepoint_id EXCEPT ![t] =
                        IF blk_id[t] % 2 = 1 THEN blk_id[t] ELSE @]
  /\ wpc' = [wpc EXCEPT ![t] = "blk_set_blocked"]
  /\ UNCHANGED <<registered, thread_state, safepoint_safe, local_poll,
                 is_ext_suspended, in_critical, walkable, blk_state, blk_id>>
  /\ UNCHANGED wframe

\* block(): thread->safepoint_state()->set_safepoint_id(safepoint_id).
Block_SetId(t) ==
  /\ wpc[t] = "blk_set_id"
  /\ safepoint_id' = [safepoint_id EXCEPT ![t] = blk_id[t]]
  /\ wpc' = [wpc EXCEPT ![t] = "blk_set_blocked"]
  /\ UNCHANGED <<registered, thread_state, safepoint_safe, local_poll,
                 is_ext_suspended, in_critical, walkable, blk_state, blk_id>>
  /\ UNCHANGED wframe

\* block(): thread->set_thread_state_fence(_thread_blocked).
Block_SetBlocked(t) ==
  /\ wpc[t] = "blk_set_blocked"
  /\ thread_state' = [thread_state EXCEPT ![t] = "_thread_blocked"]
  /\ wpc' = [wpc EXCEPT ![t] = "blk_wait"]
  /\ UNCHANGED <<registered, safepoint_id, safepoint_safe, local_poll,
                 is_ext_suspended, in_critical, walkable, blk_state, blk_id>>
  /\ UNCHANGED wframe

\* block(): _wait_barrier->wait(static_cast<int>(safepoint_id)) returns.
Block_Wait(t) ==
  /\ wpc[t] = "blk_wait"
  /\ WaitBarrier_may_return(static_cast_int(blk_id[t]))
  /\ wpc' = [wpc EXCEPT ![t] = "blk_woken"]
  /\ UNCHANGED <<registered, thread_state, safepoint_id, safepoint_safe,
                 local_poll, is_ext_suspended, in_critical, walkable,
                 blk_state, blk_id>>
  /\ UNCHANGED wframe

\* block(): thread->set_thread_state(state).
Block_Restore(t) ==
  /\ wpc[t] = "blk_woken"
  /\ thread_state' = [thread_state EXCEPT ![t] = blk_state[t]]
  /\ wpc' = [wpc EXCEPT ![t] = "blk_reset_id"]
  /\ UNCHANGED <<registered, safepoint_id, safepoint_safe, local_poll,
                 is_ext_suspended, in_critical, walkable, blk_state, blk_id>>
  /\ UNCHANGED wframe

\* JavaThread::has_special_runtime_exit_condition().
has_special_runtime_exit_condition(t) == special_condition[t] # {}

\* block(), lines 851-853: the handler is called when the thread did not
\* come from _thread_blocked_trans or _thread_in_vm_trans and a condition
\* is pending.
calls_special_handler(t) ==
  /\ blk_state[t] # "_thread_blocked_trans"
  /\ blk_state[t] # "_thread_in_vm_trans"
  /\ has_special_runtime_exit_condition(t)

\* The position block() returns to: the poll in Java code or the
\* transition that called it.
BlockReturn(t) ==
  IF blk_state[t] = "_thread_in_Java" THEN "java" ELSE "trans_done"

\* Faulty variant: block() returns without reset_safepoint_id().
Block_ResetId_kept(t) ==
  /\ wpc[t] = "blk_reset_id"
  /\ IF calls_special_handler(t)
       THEN /\ wpc' = [wpc EXCEPT ![t] = "blk_special"]
            /\ UNCHANGED <<walkable, blk_state>>
       ELSE /\ wpc' = [wpc EXCEPT ![t] = BlockReturn(t)]
            /\ walkable' = [walkable EXCEPT ![t] =
                              (blk_state[t] # "_thread_in_Java")]
            /\ blk_state' = [blk_state EXCEPT ![t] = "_thread_in_Java"]
  /\ blk_id' = [blk_id EXCEPT ![t] = 0]
  /\ UNCHANGED <<registered, thread_state, safepoint_id, safepoint_safe,
                 local_poll, is_ext_suspended, in_critical>>
  /\ UNCHANGED wframe

\* block(): reset_safepoint_id() and the test of lines 851-853; without a
\* call of the handler block() returns to the poll in Java code or to the
\* transition that called it.
Block_ResetId(t) ==
  /\ wpc[t] = "blk_reset_id"
  /\ safepoint_id' = [safepoint_id EXCEPT ![t] = InactiveSafepointCounter]
  /\ IF calls_special_handler(t)
       THEN /\ wpc' = [wpc EXCEPT ![t] = "blk_special"]
            /\ UNCHANGED <<walkable, blk_state>>
       ELSE /\ wpc' = [wpc EXCEPT ![t] = BlockReturn(t)]
            /\ walkable' = [walkable EXCEPT ![t] =
                              (blk_state[t] # "_thread_in_Java")]
            /\ blk_state' = [blk_state EXCEPT ![t] = "_thread_in_Java"]
  /\ blk_id' = [blk_id EXCEPT ![t] = 0]
  /\ UNCHANGED <<registered, thread_state, safepoint_safe, local_poll,
                 is_ext_suspended, in_critical>>
  /\ UNCHANGED wframe

\* JavaThread::handle_special_runtime_exit_condition(check_asyncs): the
\* thread honors a pending suspend request, and it takes a pending
\* asynchronous exception only when check_asyncs holds.
handle_special_runtime_exit_condition(t, check_asyncs) ==
  special_condition' =
    [special_condition EXCEPT ![t] =
       IF check_asyncs THEN {} ELSE @ \ {"suspend"}]

\* Faulty variant: block() asks for the asynchronous exceptions unless the
\* thread is at a poll, whatever state it came from.
Block_Special_any_origin(t) ==
  /\ wpc[t] = "blk_special"
  /\ \E at_poll \in IF blk_state[t] = "_thread_in_Java" THEN BOOLEAN
                                                        ELSE {FALSE} :
       LET check_asyncs == ~ at_poll
       IN  /\ handle_special_runtime_exit_condition(t, check_asyncs)
           /\ special_handled' =
                [special_handled EXCEPT ![t] =
                   [origin |-> blk_state[t], check_asyncs |-> check_asyncs]]
  /\ wpc' = [wpc EXCEPT ![t] = BlockReturn(t)]
  /\ walkable' = [walkable EXCEPT ![t] = (blk_state[t] # "_thread_in_Java")]
  /\ blk_state' = [blk_state EXCEPT ![t] = "_thread_in_Java"]
  /\ UNCHANGED <<registered, thread_state, safepoint_id, safepoint_safe,
                 local_poll, is_ext_suspended, in_critical, blk_id>>
  /\ UNCHANGED <<spglobals, vmlocals, cleanupvars, rmvars, handlevars, hs,
                 timeoutvars, arming>>

\* block(), lines 854-855: handle_special_runtime_exit_condition(
\* !thread->is_at_poll_safepoint() && (state != _thread_in_native_trans));
\* block() returns.  A thread that came from Java code is at a poll
\* safepoint (at_poll) or at the poll of a return.
Block_Special(t) ==
  /\ wpc[t] = "blk_special"
  /\ \E at_poll \in IF blk_state[t] = "_thread_in_Java" THEN BOOLEAN
                                                        ELSE {FALSE} :
       LET check_asyncs ==
             ~ at_poll /\ blk_state[t] # "_thread_in_native_trans"
       IN  /\ handle_special_runtime_exit_condition(t, check_asyncs)
           /\ special_handled' =
                [special_handled EXCEPT ![t] =
                   [origin |-> blk_state[t], check_asyncs |-> check_asyncs]]
  /\ wpc' = [wpc EXCEPT ![t] = BlockReturn(t)]
  /\ walkable' = [walkable EXCEPT ![t] = (blk_state[t] # "_thread_in_Java")]
  /\ blk_state' = [blk_state EXCEPT ![t] = "_thread_in_Java"]
  /\ UNCHANGED <<registered, thread_state, safepoint_id, safepoint_safe,
                 local_poll, is_ext_suspended, in_critical, blk_id>>
  /\ UNCHANGED <<spglobals, vmlocals, cleanupvars, rmvars, handlevars, hs,
                 timeoutvars, arming>>

(***************************************************************************)
(* The JVMTI raw monitor (jvmtiRawMonitor.cpp).  One monitor is used by    *)
(* MonThreads; thread 1 is a JavaThread, the others are not.  A thread     *)
(* outside every call ("idle") may call raw_enter, raw_exit, raw_wait,     *)
(* raw_notify or raw_notifyAll at any time.  A failed guarantee() ends the *)
(* VM: no thread takes a step once 'aborted' holds.                        *)
(***************************************************************************)

\* Number of threads that use the monitor.
NumMonThreads == 3
\* raw_enter is called while the thread holds fewer entries than this.
MaxRecursions == 3

MonThreads == 1..NumMonThreads

\* Number of threads that use raw_wait and raw_notify as well.
NumWaitThreads == 2

WaitThreads == 1..NumWaitThreads

\* The threads for which is_Java_thread() holds.
JavaMonThreads == {1}

is_Java_thread(t) == t \in jthreads

\* The null pointer (no thread, no node).
NULL == 0

\* raw_wait without a timeout (millis <= 0) and with one.
MillisValues == {0, 1}

ReturnCodes == {"M_OK", "M_ILLEGAL_MONITOR_STATE", "M_INTERRUPTED"}

\* The list seq without the node of thread x.
Remove(seq, x) == SelectSeq(seq, LAMBDA y : y # x)

\* The place of thread x in the sequence seq.
RankOf(seq, x) == CHOOSE i \in 1..Len(seq) : seq[i] = x

\* No node has been unlinked.
NoRank == [rank |-> 0, queued |-> 0]

\* The thread is outside JvmtiEnv::RawMonitorEnter and has not called it.
NotInJvmti == [pc |-> "out", calls |-> 0]

\* The thread is not inside raw_wait.
NoWait == [rec |-> 0, intr |-> FALSE, millis |-> 0]

\* The addresses at which operator new places a JvmtiRawMonitor.
NumSlots == 2

Slots == 1..NumSlots

\* The raw monitors the agent creates in one run.
MaxHandles == 3

\* enum { JVMTI_RM_MAGIC = ('T' << 24) | ('I' << 16) | ('R' << 8) | 'M' }
JVMTI_RM_MAGIC == 1414091341

\* No monitor lives at the address.
NoMonitor == 0

\* is_valid() has not been called.
NoValidation == [id |-> 0, live |-> FALSE, result |-> FALSE]

\* No raw monitor has been created: the storage is free and holds no monitor.
HandleStart ==
  /\ magic = [a \in Slots |-> 0]
  /\ rm_at = [a \in Slots |-> NoMonitor]
  /\ handles = {}
  /\ validated = NoValidation

\* JvmtiRawMonitor::JvmtiRawMonitor(), QNode::QNode(): a free monitor, empty
\* lists, nodes in the state TS_RUN; no thread is inside a call.  The
\* threads of J are JavaThreads.
MonitorStart(J) ==
  /\ owner = NULL
  /\ recursions = 0
  /\ entry_list = << >>
  /\ wait_set = << >>
  /\ waiters = 0
  /\ RawMonitor_lock = NULL
  /\ mpc = [t \in MonThreads |-> "idle"]
  /\ cont = [t \in MonThreads |-> "none"]
  /\ t_state = [t \in MonThreads |-> "TS_RUN"]
  /\ park_event = [t \in MonThreads |-> FALSE]
  /\ save = [t \in MonThreads |-> 0]
  /\ ret = [t \in MonThreads |-> "M_OK"]
  /\ w = [t \in MonThreads |-> NULL]
  /\ ev = [t \in MonThreads |-> NULL]
  /\ millis = [t \in MonThreads |-> 0]
  /\ all = [t \in MonThreads |-> FALSE]
  /\ external_suspend = [t \in MonThreads |-> FALSE]
  /\ interrupted = [t \in MonThreads |-> FALSE]
  /\ depth = [t \in MonThreads |-> 0]
  /\ enq_order = << >>
  /\ woken_rank = [t \in MonThreads |-> NoRank]
  /\ aborted = FALSE
  /\ wait_call = [t \in MonThreads |-> NoWait]
  /\ jthreads = J
  /\ jvmti = [t \in MonThreads |-> NotInJvmti]
  /\ HandleStart

\* Thread 1 is the JavaThread among the threads that use the monitor.
MonitorInit == MonitorStart(JavaMonThreads)

(***************************************************************************)
(* JvmtiRawMonitor::raw_enter                                              *)
(***************************************************************************)

\* raw_enter(), lines 311-340.  A JavaThread that is externally suspended
\* stays in java_suspend_self() until it is resumed; then, under its SR_lock,
\* cmpxchg(self, &_owner, NULL).  The owner re-enters (_recursions++), a free
\* monitor is taken (both guarantees), otherwise simple_enter() is called.
RawEnter(t) ==
  /\ ~ aborted
  /\ mpc[t] = "idle"
  /\ depth[t] < MaxRecursions
  /\ is_Java_thread(t) => ~ external_suspend[t]
  /\ IF owner = t
       THEN /\ recursions' = recursions + 1
            /\ depth' = [depth EXCEPT ![t] = @ + 1]
            /\ UNCHANGED <<owner, mpc, cont, aborted>>
       ELSE IF owner = NULL
              THEN IF recursions = 0
                     THEN /\ owner' = t
                          /\ depth' = [depth EXCEPT ![t] = @ + 1]
                          /\ UNCHANGED <<recursions, mpc, cont, aborted>>
                     ELSE /\ owner' = t
                          /\ aborted' = TRUE
                          /\ UNCHANGED <<recursions, mpc, cont, depth>>
              ELSE /\ mpc' = [mpc EXCEPT ![t] = "se_cas"]
                   /\ cont' = [cont EXCEPT ![t] = "re_after"]
                   /\ UNCHANGED <<owner, recursions, depth, aborted>>
  /\ UNCHANGED <<entry_list, wait_set, waiters, RawMonitor_lock, t_state,
                 park_event, save, ret, w, ev, millis, all,
                 external_suspend, interrupted, enq_order, woken_rank>>
  /\ UNCHANGED wait_call
  /\ UNCHANGED jthreads
  /\ jvmti' = [jvmti EXCEPT ![t].pc = IF @ = "enter_call" THEN "enter_ret" ELSE @]
  /\ UNCHANGED <<safepointvars, handlevars, hs, exitvars, arming>>

\* Faulty variant: raw_enter() returns after simple_enter() without asking
\* for a suspension that was requested meanwhile.
RE_After_unchecked(t) ==
  /\ ~ aborted
  /\ mpc[t] = "re_after"
  /\ IF FALSE
       THEN /\ mpc' = [mpc EXCEPT ![t] = "sx_release"]
            /\ cont' = [cont EXCEPT ![t] = "re_suspended"]
            /\ UNCHANGED <<depth, aborted>>
       ELSE IF owner = t /\ recursions = 0
              THEN /\ mpc' = [mpc EXCEPT ![t] = "idle"]
                   /\ depth' = [depth EXCEPT ![t] = @ + 1]
                   /\ UNCHANGED <<cont, aborted>>
              ELSE /\ aborted' = TRUE
                   /\ UNCHANGED <<mpc, cont, depth>>
  /\ UNCHANGED <<owner, recursions, entry_list, wait_set, waiters,
                 RawMonitor_lock, t_state, park_event, save, ret, w, ev,
                 millis, all, external_suspend, interrupted, enq_order,
                 woken_rank>>
  /\ UNCHANGED wait_call
  /\ UNCHANGED jthreads
  /\ UNCHANGED jvmti
  /\ UNCHANGED <<safepointvars, handlevars, hs, exitvars, arming>>

\* raw_enter(), lines 344-375: simple_enter() has returned.  A JavaThread that
\* was suspended meanwhile (handle_special_suspend_equivalent_condition) drops
\* the monitor with simple_exit(); otherwise the guarantees, and the return.
RE_After(t) ==
  /\ ~ aborted
  /\ mpc[t] = "re_after"
  /\ IF is_Java_thread(t) /\ external_suspend[t]
       THEN /\ mpc' = [mpc EXCEPT ![t] = "sx_release"]
            /\ cont' = [cont EXCEPT ![t] = "re_suspended"]
            /\ UNCHANGED <<depth, aborted>>
       ELSE IF owner = t /\ recursions = 0
              THEN /\ mpc' = [mpc EXCEPT ![t] = "idle"]
                   /\ depth' = [depth EXCEPT ![t] = @ + 1]
                   /\ UNCHANGED <<cont, aborted>>
              ELSE /\ aborted' = TRUE
                   /\ UNCHANGED <<mpc, cont, depth>>
  /\ UNCHANGED <<owner, recursions, entry_list, wait_set, waiters,
                 RawMonitor_lock, t_state, park_event, save, ret, w, ev,
                 millis, all, external_suspend, interrupted, enq_order,
                 woken_rank>>
  /\ UNCHANGED wait_call
  /\ UNCHANGED jthreads
  /\ UNCHANGED jvmti
  /\ UNCHANGED <<safepointvars, handlevars, hs, exitvars, arming>>

\* raw_enter(), lines 368-369 and 348-352: java_suspend_self() returns once the
\* thread is resumed; the loop calls simple_enter() again.
RE_Suspended(t) ==
  /\ ~ aborted
  /\ mpc[t] = "re_suspended"
  /\ ~ external_suspend[t]
  /\ mpc' = [mpc EXCEPT ![t] = "se_cas"]
  /\ cont' = [cont EXCEPT ![t] = "re_after"]
  /\ UNCHANGED <<owner, recursions, entry_list, wait_set, waiters,
                 RawMonitor_lock, t_state, park_event, save, ret, w, ev,
                 millis, all, external_suspend, interrupted, depth,
                 enq_order, woken_rank, aborted>>
  /\ UNCHANGED wait_call
  /\ UNCHANGED jthreads
  /\ UNCHANGED jvmti
  /\ UNCHANGED <<safepointvars, handlevars, hs, exitvars, arming>>

(***************************************************************************)
(* JvmtiRawMonitor::simple_enter                                           *)
(***************************************************************************)

\* Faulty variant: the owner is stored without the test for NULL.
SE_CAS_store(t) ==
  /\ ~ aborted
  /\ mpc[t] = "se_cas"
  /\ owner' = t
  /\ mpc' = [mpc EXCEPT ![t] = cont[t]]
  /\ cont' = [cont EXCEPT ![t] = "none"]
  /\ UNCHANGED <<recursions, entry_list, wait_set, waiters, RawMonitor_lock,
                 t_state, park_event, save, ret, w, ev, millis, all,
                 external_suspend, interrupted, depth, enq_order,
                 woken_rank, aborted>>
  /\ UNCHANGED wait_call
  /\ UNCHANGED jthreads
  /\ UNCHANGED jvmti
  /\ UNCHANGED <<safepointvars, handlevars, hs, exitvars, arming>>

\* simple_enter(), lines 123-130: replace_if_null(self, &_owner); on success
\* simple_enter returns.  On failure a QNode is made: the park event is reset
\* and the node is in the state TS_ENTER.
SE_CAS(t) ==
  /\ ~ aborted
  /\ mpc[t] = "se_cas"
  /\ IF owner = NULL
       THEN /\ owner' = t
            /\ mpc' = [mpc EXCEPT ![t] = cont[t]]
            /\ cont' = [cont EXCEPT ![t] = "none"]
            /\ UNCHANGED <<t_state, park_event>>
       ELSE /\ mpc' = [mpc EXCEPT ![t] = "se_lock"]
            /\ t_state' = [t_state EXCEPT ![t] = "TS_ENTER"]
            /\ park_event' = [park_event EXCEPT ![t] = FALSE]
            /\ UNCHANGED <<owner, cont>>
  /\ UNCHANGED <<recursions, entry_list, wait_set, waiters, RawMonitor_lock,
                 save, ret, w, ev, millis, all, external_suspend,
                 interrupted, depth, enq_order, woken_rank, aborted>>
  /\ UNCHANGED wait_call
  /\ UNCHANGED jthreads
  /\ UNCHANGED jvmti
  /\ UNCHANGED <<safepointvars, handlevars, hs, exitvars, arming>>

\* Faulty variant: the node is linked at the end of _entry_list.
SE_Lock_tail(t) ==
  /\ ~ aborted
  /\ mpc[t] = "se_lock"
  /\ RawMonitor_lock = NULL
  /\ entry_list' = Append(entry_list, t)
  /\ RawMonitor_lock' = t
  /\ mpc' = [mpc EXCEPT ![t] = "se_recheck"]
  /\ enq_order' = Append(enq_order, t)
  /\ UNCHANGED <<owner, recursions, wait_set, waiters, cont, t_state,
                 park_event, save, ret, w, ev, millis, all,
                 external_suspend, interrupted, depth, woken_rank,
                 aborted>>
  /\ UNCHANGED wait_call
  /\ UNCHANGED jthreads
  /\ UNCHANGED jvmti
  /\ UNCHANGED <<safepointvars, handlevars, hs, exitvars, arming>>

\* simple_enter(), lines 132-135: RawMonitor_lock is taken and the node is
\* pushed at the head of _entry_list (node._next = _entry_list).
SE_Lock(t) ==
  /\ ~ aborted
  /\ mpc[t] = "se_lock"
  /\ RawMonitor_lock = NULL
  /\ entry_list' = <<t>> \o entry_list
  /\ RawMonitor_lock' = t
  /\ mpc' = [mpc EXCEPT ![t] = "se_recheck"]
  /\ enq_order' = Append(enq_order, t)
  /\ UNCHANGED <<owner, recursions, wait_set, waiters, cont, t_state,
                 park_event, save, ret, w, ev, millis, all,
                 external_suspend, interrupted, depth, woken_rank,
                 aborted>>
  /\ UNCHANGED wait_call
  /\ UNCHANGED jthreads
  /\ UNCHANGED jvmti
  /\ UNCHANGED <<safepointvars, handlevars, hs, exitvars, arming>>

\* Faulty variant: a thread that finds the monitor owned parks without
\* releasing RawMonitor_lock.
SE_Recheck_parks_locked(t) ==
  /\ ~ aborted
  /\ mpc[t] = "se_recheck"
  /\ IF owner = NULL
       THEN /\ owner' = t
            /\ entry_list' = Tail(entry_list)
            /\ RawMonitor_lock' = NULL
            /\ mpc' = [mpc EXCEPT ![t] = cont[t]]
            /\ cont' = [cont EXCEPT ![t] = "none"]
            /\ t_state' = [t_state EXCEPT ![t] = "TS_RUN"]
            /\ enq_order' = Remove(enq_order, t)
       ELSE /\ UNCHANGED RawMonitor_lock
            /\ mpc' = [mpc EXCEPT ![t] = "se_park"]
            /\ UNCHANGED <<owner, entry_list, cont, t_state, enq_order>>
  /\ UNCHANGED <<recursions, wait_set, waiters, park_event, save, ret, w, ev,
                 millis, all, external_suspend, interrupted, depth,
                 woken_rank, aborted>>
  /\ UNCHANGED wait_call
  /\ UNCHANGED jthreads
  /\ UNCHANGED jvmti
  /\ UNCHANGED <<safepointvars, handlevars, hs, exitvars, arming>>

\* Faulty variant: simple_enter() parks after the push without looking at
\* _owner again.
SE_Recheck_blind(t) ==
  /\ ~ aborted
  /\ mpc[t] = "se_recheck"
  /\ IF FALSE
       THEN /\ owner' = t
            /\ entry_list' = Tail(entry_list)
            /\ RawMonitor_lock' = NULL
            /\ mpc' = [mpc EXCEPT ![t] = cont[t]]
            /\ cont' = [cont EXCEPT ![t] = "none"]
            /\ t_state' = [t_state EXCEPT ![t] = "TS_RUN"]
            /\ enq_order' = Remove(enq_order, t)
       ELSE /\ RawMonitor_lock' = NULL
            /\ mpc' = [mpc EXCEPT ![t] = "se_park"]
            /\ UNCHANGED <<owner, entry_list, cont, t_state, enq_order>>
  /\ UNCHANGED <<recursions, wait_set, waiters, park_event, save, ret, w, ev,
                 millis, all, external_suspend, interrupted, depth,
                 woken_rank, aborted>>
  /\ UNCHANGED wait_call
  /\ UNCHANGED jthreads
  /\ UNCHANGED jvmti
  /\ UNCHANGED <<safepointvars, handlevars, hs, exitvars, arming>>

\* simple_enter(), lines 136-141: if the owner is NULL now and the CAS wins,
\* the node is unlinked (_entry_list = node._next), the lock released and
\* simple_enter returns; otherwise the lock is released and the thread parks.
SE_Recheck(t) ==
  /\ ~ aborted
  /\ mpc[t] = "se_recheck"
  /\ IF owner = NULL
       THEN /\ owner' = t
            /\ entry_list' = Tail(entry_list)
            /\ RawMonitor_lock' = NULL
            /\ mpc' = [mpc EXCEPT ![t] = cont[t]]
            /\ cont' = [cont EXCEPT ![t] = "none"]
            /\ t_state' = [t_state EXCEPT ![t] = "TS_RUN"]
            /\ enq_order' = Remove(enq_order, t)
       ELSE /\ RawMonitor_lock' = NULL
            /\ mpc' = [mpc EXCEPT ![t] = "se_park"]
            /\ UNCHANGED <<owner, entry_list, cont, t_state, enq_order>>
  /\ UNCHANGED <<recursions, wait_set, waiters, park_event, save, ret, w, ev,
                 millis, all, external_suspend, interrupted, depth,
                 woken_rank, aborted>>
  /\ UNCHANGED wait_call
  /\ UNCHANGED jthreads
  /\ UNCHANGED jvmti
  /\ UNCHANGED <<safepointvars, handlevars, hs, exitvars, arming>>

\* Faulty variant: the thread leaves the loop when park() returns, whatever
\* the state of its node.
SE_Park_once(t) ==
  /\ ~ aborted
  /\ mpc[t] = "se_park"
  /\ t_state[t] # "TS_ENTER" \/ park_event[t]
  /\ mpc' = [mpc EXCEPT ![t] = "se_cas"]
  /\ park_event' = [park_event EXCEPT ![t] = FALSE]
  /\ UNCHANGED <<owner, recursions, entry_list, wait_set, waiters,
                 RawMonitor_lock, cont, t_state, save, ret, w, ev,
                 millis, all, external_suspend, interrupted, depth,
                 enq_order, woken_rank, aborted>>
  /\ UNCHANGED wait_call
  /\ UNCHANGED jthreads
  /\ UNCHANGED jvmti
  /\ UNCHANGED <<safepointvars, handlevars, hs, exitvars, arming>>

\* simple_enter(), lines 142-144: while (node._t_state == TS_ENTER) park().
\* park() returns when the event is set, and clears it; once the state is
\* TS_RUN the outer loop tries the CAS again.
SE_Park(t) ==
  /\ ~ aborted
  /\ mpc[t] = "se_park"
  /\ t_state[t] # "TS_ENTER" \/ park_event[t]
  /\ IF t_state[t] # "TS_ENTER"
       THEN /\ mpc' = [mpc EXCEPT ![t] = "se_cas"]
            /\ UNCHANGED park_event
       ELSE /\ park_event' = [park_event EXCEPT ![t] = FALSE]
            /\ UNCHANGED mpc
  /\ UNCHANGED <<owner, recursions, entry_list, wait_set, waiters,
                 RawMonitor_lock, cont, t_state, save, ret, w, ev,
                 millis, all, external_suspend, interrupted, depth,
                 enq_order, woken_rank, aborted>>
  /\ UNCHANGED wait_call
  /\ UNCHANGED jthreads
  /\ UNCHANGED jvmti
  /\ UNCHANGED <<safepointvars, handlevars, hs, exitvars, arming>>

(***************************************************************************)
(* JvmtiRawMonitor::simple_exit, raw_exit                                  *)
(***************************************************************************)

\* Faulty variant: a nested raw_exit leaves _recursions as it is.
RawExit_keep(t) ==
  /\ ~ aborted
  /\ mpc[t] = "idle"
  /\ IF owner # t
       THEN /\ ret' = [ret EXCEPT ![t] = "M_ILLEGAL_MONITOR_STATE"]
            /\ UNCHANGED <<mpc, cont, depth>>
       ELSE IF recursions > 0
              THEN /\ ret' = [ret EXCEPT ![t] = "M_OK"]
                   /\ depth' = [depth EXCEPT ![t] = @ - 1]
                   /\ UNCHANGED <<mpc, cont>>
              ELSE /\ mpc' = [mpc EXCEPT ![t] = "sx_release"]
                   /\ cont' = [cont EXCEPT ![t] = "rx_ret"]
                   /\ UNCHANGED <<ret, depth>>
  /\ UNCHANGED <<owner, recursions, entry_list, wait_set, waiters,
                 RawMonitor_lock, t_state, park_event, save, w, ev,
                 millis, all, external_suspend, interrupted, enq_order,
                 woken_rank, aborted>>
  /\ UNCHANGED wait_call
  /\ UNCHANGED jthreads
  /\ UNCHANGED jvmti
  /\ UNCHANGED <<safepointvars, handlevars, hs, exitvars, arming>>

\* raw_exit(), lines 378-386: M_ILLEGAL_MONITOR_STATE for a thread that is not
\* the owner; a nested exit decrements _recursions and returns M_OK; the
\* outermost exit calls simple_exit().
RawExit(t) ==
  /\ ~ aborted
  /\ mpc[t] = "idle"
  /\ IF owner # t
       THEN /\ ret' = [ret EXCEPT ![t] = "M_ILLEGAL_MONITOR_STATE"]
            /\ UNCHANGED <<recursions, mpc, cont, depth>>
       ELSE IF recursions > 0
              THEN /\ recursions' = recursions - 1
                   /\ ret' = [ret EXCEPT ![t] = "M_OK"]
                   /\ depth' = [depth EXCEPT ![t] = @ - 1]
                   /\ UNCHANGED <<mpc, cont>>
              ELSE /\ mpc' = [mpc EXCEPT ![t] = "sx_release"]
                   /\ cont' = [cont EXCEPT ![t] = "rx_ret"]
                   /\ UNCHANGED <<recursions, ret, depth>>
  /\ UNCHANGED <<owner, entry_list, wait_set, waiters, RawMonitor_lock,
                 t_state, park_event, save, w, ev, millis, all,
                 external_suspend, interrupted, enq_order, woken_rank,
                 aborted>>
  /\ UNCHANGED wait_call
  /\ UNCHANGED jthreads
  /\ UNCHANGED jvmti
  /\ UNCHANGED <<safepointvars, handlevars, hs, exitvars, arming>>

\* raw_exit(), line 388: simple_exit() has returned; return M_OK.
RX_Return(t) ==
  /\ ~ aborted
  /\ mpc[t] = "rx_ret"
  /\ mpc' = [mpc EXCEPT ![t] = "idle"]
  /\ ret' = [ret EXCEPT ![t] = "M_OK"]
  /\ UNCHANGED <<owner, recursions, entry_list, wait_set, waiters,
                 RawMonitor_lock, cont, t_state, park_event, save, w, ev,
                 millis, all, external_suspend, interrupted, depth,
                 enq_order, woken_rank, aborted>>
  /\ UNCHANGED wait_call
  /\ UNCHANGED jthreads
  /\ UNCHANGED jvmti
  /\ UNCHANGED <<safepointvars, handlevars, hs, exitvars, arming>>

\* simple_exit(), lines 149-151: guarantee(_owner == self);
\* release_store(&_owner, NULL).  With this store the outermost raw_exit has
\* given the monitor up.
SX_Release(t) ==
  /\ ~ aborted
  /\ mpc[t] = "sx_release"
  /\ IF owner = t
       THEN /\ owner' = NULL
            /\ mpc' = [mpc EXCEPT ![t] = "sx_read"]
            /\ depth' = [depth EXCEPT ![t] = IF cont[t] = "rx_ret" THEN @ - 1 ELSE @]
            /\ UNCHANGED aborted
       ELSE /\ aborted' = TRUE
            /\ UNCHANGED <<owner, mpc, depth>>
  /\ UNCHANGED <<recursions, entry_list, wait_set, waiters, RawMonitor_lock,
                 cont, t_state, park_event, save, ret, w, ev, millis,
                 all, external_suspend, interrupted, enq_order,
                 woken_rank>>
  /\ UNCHANGED wait_call
  /\ UNCHANGED jthreads
  /\ UNCHANGED jvmti
  /\ UNCHANGED <<safepointvars, handlevars, hs, exitvars, arming>>

\* simple_exit(), lines 152-154: if (_entry_list == NULL) return.
SX_Read(t) ==
  /\ ~ aborted
  /\ mpc[t] = "sx_read"
  /\ IF entry_list = << >>
       THEN /\ mpc' = [mpc EXCEPT ![t] = cont[t]]
            /\ cont' = [cont EXCEPT ![t] = "none"]
       ELSE /\ mpc' = [mpc EXCEPT ![t] = "sx_lock"]
            /\ UNCHANGED cont
  /\ UNCHANGED <<owner, recursions, entry_list, wait_set, waiters,
                 RawMonitor_lock, t_state, park_event, save, ret, w, ev,
                 millis, all, external_suspend, interrupted, depth,
                 enq_order, woken_rank, aborted>>
  /\ UNCHANGED wait_call
  /\ UNCHANGED jthreads
  /\ UNCHANGED jvmti
  /\ UNCHANGED <<safepointvars, handlevars, hs, exitvars, arming>>

\* simple_exit(), lines 156-163: under RawMonitor_lock the head of _entry_list
\* is unlinked; guarantee(w->_t_state == TS_ENTER).
SX_Lock(t) ==
  /\ ~ aborted
  /\ mpc[t] = "sx_lock"
  /\ RawMonitor_lock = NULL
  /\ IF entry_list = << >>
       THEN /\ mpc' = [mpc EXCEPT ![t] = cont[t]]
            /\ cont' = [cont EXCEPT ![t] = "none"]
            /\ UNCHANGED <<entry_list, w, enq_order, woken_rank, aborted>>
       ELSE IF t_state[Head(entry_list)] = "TS_ENTER"
              THEN /\ entry_list' = Tail(entry_list)
                   /\ mpc' = [mpc EXCEPT ![t] = "sx_setrun"]
                   /\ w' = [w EXCEPT ![t] = Head(entry_list)]
                   /\ enq_order' = Remove(enq_order, Head(entry_list))
                   /\ woken_rank' = [woken_rank EXCEPT ![t] = [rank |-> RankOf(enq_order, Head(entry_list)), queued |-> Len(enq_order)]]
                   /\ UNCHANGED <<cont, aborted>>
              ELSE /\ aborted' = TRUE
                   /\ UNCHANGED <<entry_list, mpc, cont, w, enq_order,
                                     woken_rank>>
  /\ UNCHANGED <<owner, recursions, wait_set, waiters, RawMonitor_lock,
                 t_state, park_event, save, ret, ev, millis, all,
                 external_suspend, interrupted, depth>>
  /\ UNCHANGED wait_call
  /\ UNCHANGED jthreads
  /\ UNCHANGED jvmti
  /\ UNCHANGED <<safepointvars, handlevars, hs, exitvars, arming>>

\* Faulty variant: simple_exit() leaves the dequeued node in TS_ENTER.
SX_SetRun_skipped(t) ==
  /\ ~ aborted
  /\ mpc[t] = "sx_setrun"
  /\ mpc' = [mpc EXCEPT ![t] = "sx_unpark"]
  /\ UNCHANGED t_state
  /\ UNCHANGED <<owner, recursions, entry_list, wait_set, waiters,
                 RawMonitor_lock, cont, park_event, save, ret, w, ev,
                 millis, all, external_suspend, interrupted, depth,
                 enq_order, woken_rank, aborted>>
  /\ UNCHANGED wait_call
  /\ UNCHANGED jthreads
  /\ UNCHANGED jvmti
  /\ UNCHANGED <<safepointvars, handlevars, hs, exitvars, arming>>

\* simple_exit(), lines 168-171: ev = w->_event; w->_t_state = TS_RUN.
SX_SetRun(t) ==
  /\ ~ aborted
  /\ mpc[t] = "sx_setrun"
  /\ mpc' = [mpc EXCEPT ![t] = "sx_unpark"]
  /\ t_state' = [t_state EXCEPT ![w[t]] = "TS_RUN"]
  /\ UNCHANGED <<owner, recursions, entry_list, wait_set, waiters,
                 RawMonitor_lock, cont, park_event, save, ret, w, ev,
                 millis, all, external_suspend, interrupted, depth,
                 enq_order, woken_rank, aborted>>
  /\ UNCHANGED wait_call
  /\ UNCHANGED jthreads
  /\ UNCHANGED jvmti
  /\ UNCHANGED <<safepointvars, handlevars, hs, exitvars, arming>>

\* simple_exit(), lines 172-174: ev->unpark(); return.
SX_Unpark(t) ==
  /\ ~ aborted
  /\ mpc[t] = "sx_unpark"
  /\ mpc' = [mpc EXCEPT ![t] = cont[t]]
  /\ cont' = [cont EXCEPT ![t] = "none"]
  /\ park_event' = [park_event EXCEPT ![w[t]] = TRUE]
  /\ w' = [w EXCEPT ![t] = NULL]
  /\ woken_rank' = [woken_rank EXCEPT ![t] = NoRank]
  /\ UNCHANGED <<owner, recursions, entry_list, wait_set, waiters,
                 RawMonitor_lock, t_state, save, ret, ev, millis, all,
                 external_suspend, interrupted, depth, enq_order,
                 aborted>>
  /\ UNCHANGED wait_call
  /\ UNCHANGED jthreads
  /\ UNCHANGED jvmti
  /\ UNCHANGED <<safepointvars, handlevars, hs, exitvars, arming>>

(***************************************************************************)
(* JvmtiRawMonitor::raw_wait, simple_wait, enqueue_waiter, dequeue_waiter  *)
(***************************************************************************)

\* Faulty variant: raw_wait() does not test the owner.
RawWait_unchecked(t, m) ==
  /\ ~ aborted
  /\ mpc[t] = "idle"
  /\ recursions' = 0
  /\ waiters' = waiters + 1
  /\ mpc' = [mpc EXCEPT ![t] = "wq_lock"]
  /\ t_state' = [t_state EXCEPT ![t] = "TS_WAIT"]
  /\ park_event' = [park_event EXCEPT ![t] = FALSE]
  /\ save' = [save EXCEPT ![t] = recursions]
  /\ ret' = [ret EXCEPT ![t] = "M_OK"]
  /\ millis' = [millis EXCEPT ![t] = m]
  /\ UNCHANGED <<owner, entry_list, wait_set, RawMonitor_lock, cont, w, ev,
                 all, external_suspend, interrupted, depth, enq_order,
                 woken_rank, aborted>>
  /\ wait_call' = [wait_call EXCEPT ![t] = [rec |-> recursions,
                                            intr |-> interrupted[t],
                                            millis |-> m]]
  /\ UNCHANGED jthreads
  /\ UNCHANGED jvmti
  /\ UNCHANGED <<safepointvars, handlevars, hs, exitvars, arming>>

\* raw_wait(), lines 392-406, simple_wait(), lines 226-229, enqueue_waiter(),
\* lines 178-179: M_ILLEGAL_MONITOR_STATE for a thread that is not the owner;
\* else the park event is reset, _recursions saved and set to 0, _waiters++,
\* and the node of the waiter is in the state TS_WAIT.
RawWait(t, m) ==
  /\ ~ aborted
  /\ mpc[t] = "idle"
  /\ IF owner # t
       THEN /\ ret' = [ret EXCEPT ![t] = "M_ILLEGAL_MONITOR_STATE"]
            /\ UNCHANGED <<recursions, waiters, mpc, t_state, park_event,
                              save, millis>>
       ELSE /\ recursions' = 0
            /\ waiters' = waiters + 1
            /\ mpc' = [mpc EXCEPT ![t] = "wq_lock"]
            /\ t_state' = [t_state EXCEPT ![t] = "TS_WAIT"]
            /\ park_event' = [park_event EXCEPT ![t] = FALSE]
            /\ save' = [save EXCEPT ![t] = recursions]
            /\ ret' = [ret EXCEPT ![t] = "M_OK"]
            /\ millis' = [millis EXCEPT ![t] = m]
  /\ UNCHANGED <<owner, entry_list, wait_set, RawMonitor_lock, cont, w, ev,
                 all, external_suspend, interrupted, depth, enq_order,
                 woken_rank, aborted>>
  /\ wait_call' = IF owner = t
                  THEN [wait_call EXCEPT ![t] = [rec |-> recursions,
                                                 intr |-> interrupted[t],
                                                 millis |-> m]]
                  ELSE wait_call
  /\ UNCHANGED jthreads
  /\ UNCHANGED jvmti
  /\ UNCHANGED <<safepointvars, handlevars, hs, exitvars, arming>>

\* enqueue_waiter(), lines 180-183: under RawMonitor_lock the node is pushed at
\* the head of _wait_set; simple_wait() calls simple_exit().
WQ_Lock(t) ==
  /\ ~ aborted
  /\ mpc[t] = "wq_lock"
  /\ RawMonitor_lock = NULL
  /\ wait_set' = <<t>> \o wait_set
  /\ mpc' = [mpc EXCEPT ![t] = "sx_release"]
  /\ cont' = [cont EXCEPT ![t] = "sw_after_exit"]
  /\ UNCHANGED <<owner, recursions, entry_list, waiters, RawMonitor_lock,
                 t_state, park_event, save, ret, w, ev, millis, all,
                 external_suspend, interrupted, depth, enq_order,
                 woken_rank, aborted>>
  /\ UNCHANGED wait_call
  /\ UNCHANGED jthreads
  /\ UNCHANGED jvmti
  /\ UNCHANGED <<safepointvars, handlevars, hs, exitvars, arming>>

\* Faulty variant: the park event is reset after the monitor was given up.
SW_AfterExit_resets(t) ==
  /\ ~ aborted
  /\ mpc[t] = "sw_after_exit"
  /\ park_event' = [park_event EXCEPT ![t] = FALSE]
  /\ IF owner = t
       THEN /\ aborted' = TRUE
            /\ UNCHANGED <<mpc, ret, interrupted>>
       ELSE IF is_Java_thread(t) /\ interrupted[t]
              THEN /\ mpc' = [mpc EXCEPT ![t] = "sw_postcheck"]
                   /\ ret' = [ret EXCEPT ![t] = "M_INTERRUPTED"]
                   /\ interrupted' = [interrupted EXCEPT ![t] = FALSE]
                   /\ UNCHANGED aborted
              ELSE /\ mpc' = [mpc EXCEPT ![t] = "sw_park"]
                   /\ UNCHANGED <<ret, interrupted, aborted>>
  /\ UNCHANGED <<owner, recursions, entry_list, wait_set, waiters,
                 RawMonitor_lock, cont, t_state, save, w, ev,
                 millis, all, external_suspend, depth, enq_order,
                 woken_rank>>
  /\ UNCHANGED wait_call
  /\ UNCHANGED jthreads
  /\ UNCHANGED jvmti
  /\ UNCHANGED <<safepointvars, handlevars, hs, exitvars, arming>>

\* simple_wait(), lines 233-245: guarantee(_owner != self).  A JavaThread that
\* is_interrupted(true) (the flag is cleared) does not park and has
\* ret = M_INTERRUPTED; every other thread goes on to park.
SW_AfterExit(t) ==
  /\ ~ aborted
  /\ mpc[t] = "sw_after_exit"
  /\ IF owner = t
       THEN /\ aborted' = TRUE
            /\ UNCHANGED <<mpc, ret, interrupted>>
       ELSE IF is_Java_thread(t) /\ interrupted[t]
              THEN /\ mpc' = [mpc EXCEPT ![t] = "sw_postcheck"]
                   /\ ret' = [ret EXCEPT ![t] = "M_INTERRUPTED"]
                   /\ interrupted' = [interrupted EXCEPT ![t] = FALSE]
                   /\ UNCHANGED aborted
              ELSE /\ mpc' = [mpc EXCEPT ![t] = "sw_park"]
                   /\ UNCHANGED <<ret, interrupted, aborted>>
  /\ UNCHANGED <<owner, recursions, entry_list, wait_set, waiters,
                 RawMonitor_lock, cont, t_state, park_event, save, w, ev,
                 millis, all, external_suspend, depth, enq_order,
                 woken_rank>>
  /\ UNCHANGED wait_call
  /\ UNCHANGED jthreads
  /\ UNCHANGED jvmti
  /\ UNCHANGED <<safepointvars, handlevars, hs, exitvars, arming>>

\* simple_wait(), lines 245-249 and 256-260: park() returns when the event is
\* set, park(millis) also when the time is over; the event is cleared.
SW_Park(t) ==
  /\ ~ aborted
  /\ mpc[t] = "sw_park"
  /\ park_event[t] \/ millis[t] > 0
  /\ mpc' = [mpc EXCEPT ![t] = IF is_Java_thread(t) THEN "sw_postcheck" ELSE "dq_check"]
  /\ park_event' = [park_event EXCEPT ![t] = FALSE]
  /\ UNCHANGED <<owner, recursions, entry_list, wait_set, waiters,
                 RawMonitor_lock, cont, t_state, save, ret, w, ev,
                 millis, all, external_suspend, interrupted, depth,
                 enq_order, woken_rank, aborted>>
  /\ UNCHANGED wait_call
  /\ UNCHANGED jthreads
  /\ UNCHANGED jvmti
  /\ UNCHANGED <<safepointvars, handlevars, hs, exitvars, arming>>

\* Faulty variant: the interrupt state is not checked after park().
SW_PostCheck_skipped(t) ==
  /\ ~ aborted
  /\ mpc[t] = "sw_postcheck"
  /\ mpc' = [mpc EXCEPT ![t] = "dq_check"]
  /\ UNCHANGED <<owner, recursions, entry_list, wait_set, waiters,
                 RawMonitor_lock, cont, t_state, park_event, save, ret, w,
                 ev, millis, all, external_suspend, interrupted, depth,
                 enq_order, woken_rank, aborted>>
  /\ UNCHANGED wait_call
  /\ UNCHANGED jthreads
  /\ UNCHANGED jvmti
  /\ UNCHANGED <<safepointvars, handlevars, hs, exitvars, arming>>

\* simple_wait(), lines 252-254: the post-check of the interrupt state.
SW_PostCheck(t) ==
  /\ ~ aborted
  /\ mpc[t] = "sw_postcheck"
  /\ IF interrupted[t]
       THEN /\ mpc' = [mpc EXCEPT ![t] = "dq_check"]
            /\ ret' = [ret EXCEPT ![t] = "M_INTERRUPTED"]
            /\ interrupted' = [interrupted EXCEPT ![t] = FALSE]
       ELSE /\ mpc' = [mpc EXCEPT ![t] = "dq_check"]
            /\ UNCHANGED <<ret, interrupted>>
  /\ UNCHANGED <<owner, recursions, entry_list, wait_set, waiters,
                 RawMonitor_lock, cont, t_state, park_event, save, w, ev,
                 millis, all, external_suspend, depth, enq_order,
                 woken_rank, aborted>>
  /\ UNCHANGED wait_call
  /\ UNCHANGED jthreads
  /\ UNCHANGED jvmti
  /\ UNCHANGED <<safepointvars, handlevars, hs, exitvars, arming>>

\* dequeue_waiter(), line 192, the unlocked test of _t_state; if the node has
\* left the wait set already, simple_wait() calls simple_enter().
DQ_Check(t) ==
  /\ ~ aborted
  /\ mpc[t] = "dq_check"
  /\ IF t_state[t] = "TS_WAIT"
       THEN /\ mpc' = [mpc EXCEPT ![t] = "dq_lock"]
            /\ UNCHANGED cont
       ELSE /\ mpc' = [mpc EXCEPT ![t] = "se_cas"]
            /\ cont' = [cont EXCEPT ![t] = "sw_reentered"]
  /\ UNCHANGED <<owner, recursions, entry_list, wait_set, waiters,
                 RawMonitor_lock, t_state, park_event, save, ret, w, ev,
                 millis, all, external_suspend, interrupted, depth,
                 enq_order, woken_rank, aborted>>
  /\ UNCHANGED wait_call
  /\ UNCHANGED jthreads
  /\ UNCHANGED jvmti
  /\ UNCHANGED <<safepointvars, handlevars, hs, exitvars, arming>>

\* dequeue_waiter(), lines 193-214: under RawMonitor_lock a node that is still
\* TS_WAIT is unlinked from _wait_set and set to TS_RUN; simple_wait() calls
\* simple_enter().
DQ_Lock(t) ==
  /\ ~ aborted
  /\ mpc[t] = "dq_lock"
  /\ RawMonitor_lock = NULL
  /\ IF t_state[t] = "TS_WAIT"
       THEN /\ wait_set' = Remove(wait_set, t)
            /\ mpc' = [mpc EXCEPT ![t] = "se_cas"]
            /\ cont' = [cont EXCEPT ![t] = "sw_reentered"]
            /\ t_state' = [t_state EXCEPT ![t] = "TS_RUN"]
       ELSE /\ mpc' = [mpc EXCEPT ![t] = "se_cas"]
            /\ cont' = [cont EXCEPT ![t] = "sw_reentered"]
            /\ UNCHANGED <<wait_set, t_state>>
  /\ UNCHANGED <<owner, recursions, entry_list, waiters, RawMonitor_lock,
                 park_event, save, ret, w, ev, millis, all,
                 external_suspend, interrupted, depth, enq_order,
                 woken_rank, aborted>>
  /\ UNCHANGED wait_call
  /\ UNCHANGED jthreads
  /\ UNCHANGED jvmti
  /\ UNCHANGED <<safepointvars, handlevars, hs, exitvars, arming>>

\* simple_wait(), lines 266-269, raw_wait(), lines 407-410: the guarantees
\* _owner == self and _recursions == 0; _recursions = save; _waiters--.
\* A thread that is not a JavaThread returns ret.
SW_Reentered(t) ==
  /\ ~ aborted
  /\ mpc[t] = "sw_reentered"
  /\ IF owner = t /\ recursions = 0
       THEN /\ recursions' = save[t]
            /\ waiters' = waiters - 1
            /\ mpc' = [mpc EXCEPT ![t] = IF is_Java_thread(t) THEN "rw_check" ELSE "idle"]
            /\ save' = [save EXCEPT ![t] = 0]
            /\ millis' = [millis EXCEPT ![t] = 0]
            /\ UNCHANGED aborted
       ELSE /\ aborted' = TRUE
            /\ UNCHANGED <<recursions, waiters, mpc, save, millis>>
  /\ UNCHANGED <<owner, entry_list, wait_set, RawMonitor_lock, cont, t_state,
                 park_event, ret, w, ev, all, external_suspend,
                 interrupted, depth, enq_order, woken_rank>>
  /\ wait_call' = IF owner = t /\ recursions = 0 /\ ~ is_Java_thread(t)
                  THEN [wait_call EXCEPT ![t] = NoWait]
                  ELSE wait_call
  /\ UNCHANGED jthreads
  /\ UNCHANGED jvmti
  /\ UNCHANGED <<safepointvars, handlevars, hs, exitvars, arming>>

\* raw_wait(), lines 414-424 and 438-443: a JavaThread that was suspended
\* while it waited gives the monitor up with simple_exit(); else raw_wait
\* returns ret.
RW_Check(t) ==
  /\ ~ aborted
  /\ mpc[t] = "rw_check"
  /\ IF external_suspend[t]
       THEN /\ mpc' = [mpc EXCEPT ![t] = "sx_release"]
            /\ cont' = [cont EXCEPT ![t] = "rw_suspended"]
            /\ UNCHANGED aborted
       ELSE IF owner = t
              THEN /\ mpc' = [mpc EXCEPT ![t] = "idle"]
                   /\ UNCHANGED <<cont, aborted>>
              ELSE /\ aborted' = TRUE
                   /\ UNCHANGED <<mpc, cont>>
  /\ UNCHANGED <<owner, recursions, entry_list, wait_set, waiters,
                 RawMonitor_lock, t_state, park_event, save, ret, w, ev,
                 millis, all, external_suspend, interrupted, depth,
                 enq_order, woken_rank>>
  /\ wait_call' = IF ~ external_suspend[t] /\ owner = t
                  THEN [wait_call EXCEPT ![t] = NoWait]
                  ELSE wait_call
  /\ UNCHANGED jthreads
  /\ UNCHANGED jvmti
  /\ UNCHANGED <<safepointvars, handlevars, hs, exitvars, arming>>

\* raw_wait(), lines 426-435: java_suspend_self() returns once the thread is
\* resumed; the interrupt state is checked again; simple_enter().
RW_Suspended(t) ==
  /\ ~ aborted
  /\ mpc[t] = "rw_suspended"
  /\ ~ external_suspend[t]
  /\ IF interrupted[t]
       THEN /\ mpc' = [mpc EXCEPT ![t] = "se_cas"]
            /\ cont' = [cont EXCEPT ![t] = "rw_check"]
            /\ ret' = [ret EXCEPT ![t] = "M_INTERRUPTED"]
            /\ interrupted' = [interrupted EXCEPT ![t] = FALSE]
       ELSE /\ mpc' = [mpc EXCEPT ![t] = "se_cas"]
            /\ cont' = [cont EXCEPT ![t] = "rw_check"]
            /\ UNCHANGED <<ret, interrupted>>
  /\ UNCHANGED <<owner, recursions, entry_list, wait_set, waiters,
                 RawMonitor_lock, t_state, park_event, save, w, ev,
                 millis, all, external_suspend, depth, enq_order,
                 woken_rank, aborted>>
  /\ UNCHANGED wait_call
  /\ UNCHANGED jthreads
  /\ UNCHANGED jvmti
  /\ UNCHANGED <<safepointvars, handlevars, hs, exitvars, arming>>

(***************************************************************************)
(* JvmtiRawMonitor::raw_notify, raw_notifyAll, simple_notify               *)
(***************************************************************************)

\* raw_notify()/raw_notifyAll(), lines 446-460, simple_notify(), lines
\* 273-276: M_ILLEGAL_MONITOR_STATE for a thread that is not the owner; with
\* an empty _wait_set simple_notify returns at once.
RawNotify(t, a) ==
  /\ ~ aborted
  /\ mpc[t] = "idle"
  /\ IF owner # t
       THEN /\ ret' = [ret EXCEPT ![t] = "M_ILLEGAL_MONITOR_STATE"]
            /\ UNCHANGED <<mpc, ev, all>>
       ELSE IF wait_set = << >>
              THEN /\ ret' = [ret EXCEPT ![t] = "M_OK"]
                   /\ UNCHANGED <<mpc, ev, all>>
              ELSE /\ mpc' = [mpc EXCEPT ![t] = "sn_lock"]
                   /\ ev' = [ev EXCEPT ![t] = NULL]
                   /\ all' = [all EXCEPT ![t] = a]
                   /\ UNCHANGED ret
  /\ UNCHANGED <<owner, recursions, entry_list, wait_set, waiters,
                 RawMonitor_lock, cont, t_state, park_event, save, w,
                 millis, external_suspend, interrupted, depth, enq_order,
                 woken_rank, aborted>>
  /\ UNCHANGED wait_call
  /\ UNCHANGED jthreads
  /\ UNCHANGED jvmti
  /\ UNCHANGED <<safepointvars, handlevars, hs, exitvars, arming>>

\* simple_notify(), line 286: RawMonitor_lock is taken.
SN_Lock(t) ==
  /\ ~ aborted
  /\ mpc[t] = "sn_lock"
  /\ RawMonitor_lock = NULL
  /\ RawMonitor_lock' = t
  /\ mpc' = [mpc EXCEPT ![t] = "sn_loop"]
  /\ UNCHANGED <<owner, recursions, entry_list, wait_set, waiters, cont,
                 t_state, park_event, save, ret, w, ev, millis, all,
                 external_suspend, interrupted, depth, enq_order,
                 woken_rank, aborted>>
  /\ UNCHANGED wait_call
  /\ UNCHANGED jthreads
  /\ UNCHANGED jvmti
  /\ UNCHANGED <<safepointvars, handlevars, hs, exitvars, arming>>

\* Faulty variant: simple_notify() goes on to the next node although all
\* is false.
SN_Loop_no_break(t) ==
  /\ ~ aborted
  /\ mpc[t] = "sn_loop"
  /\ IF wait_set = << >>
       THEN /\ RawMonitor_lock' = NULL
            /\ mpc' = [mpc EXCEPT ![t] = "sn_unpark"]
            /\ UNCHANGED <<wait_set, t_state, park_event, ev>>
       ELSE /\ wait_set' = Tail(wait_set)
            /\ RawMonitor_lock' = t
            /\ UNCHANGED mpc
            /\ t_state' = [t_state EXCEPT ![Head(wait_set)] = "TS_RUN"]
            /\ park_event' = [u \in MonThreads |-> IF u = ev[t] THEN TRUE ELSE park_event[u]]
            /\ ev' = [ev EXCEPT ![t] = Head(wait_set)]
  /\ UNCHANGED <<owner, recursions, entry_list, waiters, cont, save, ret, w,
                 millis, all, external_suspend, interrupted, depth,
                 enq_order, woken_rank, aborted>>
  /\ UNCHANGED wait_call
  /\ UNCHANGED jthreads
  /\ UNCHANGED jvmti
  /\ UNCHANGED <<safepointvars, handlevars, hs, exitvars, arming>>

\* simple_notify(), lines 287-303, one round of the loop: the head of
\* _wait_set is unlinked, the event kept from the round before is unparked,
\* the node is set to TS_RUN; the lock is released when the set is empty or
\* after one node if (!all).
SN_Loop(t) ==
  /\ ~ aborted
  /\ mpc[t] = "sn_loop"
  /\ IF wait_set = << >>
       THEN /\ RawMonitor_lock' = NULL
            /\ mpc' = [mpc EXCEPT ![t] = "sn_unpark"]
            /\ UNCHANGED <<wait_set, t_state, park_event, ev>>
       ELSE /\ wait_set' = Tail(wait_set)
            /\ RawMonitor_lock' = IF all[t] THEN t ELSE NULL
            /\ mpc' = [mpc EXCEPT ![t] = IF all[t] THEN "sn_loop" ELSE "sn_unpark"]
            /\ t_state' = [t_state EXCEPT ![Head(wait_set)] = "TS_RUN"]
            /\ park_event' = [u \in MonThreads |-> IF u = ev[t] THEN TRUE ELSE park_event[u]]
            /\ ev' = [ev EXCEPT ![t] = Head(wait_set)]
  /\ UNCHANGED <<owner, recursions, entry_list, waiters, cont, save, ret, w,
                 millis, all, external_suspend, interrupted, depth,
                 enq_order, woken_rank, aborted>>
  /\ UNCHANGED wait_call
  /\ UNCHANGED jthreads
  /\ UNCHANGED jvmti
  /\ UNCHANGED <<safepointvars, handlevars, hs, exitvars, arming>>

\* simple_notify(), lines 304-307, raw_notify(), line 451: the last event is
\* unparked; return M_OK.
SN_Unpark(t) ==
  /\ ~ aborted
  /\ mpc[t] = "sn_unpark"
  /\ mpc' = [mpc EXCEPT ![t] = "idle"]
  /\ park_event' = [u \in MonThreads |-> IF u = ev[t] THEN TRUE ELSE park_event[u]]
  /\ ret' = [ret EXCEPT ![t] = "M_OK"]
  /\ ev' = [ev EXCEPT ![t] = NULL]
  /\ all' = [all EXCEPT ![t] = FALSE]
  /\ UNCHANGED <<owner, recursions, entry_list, wait_set, waiters,
                 RawMonitor_lock, cont, t_state, save, w, millis,
                 external_suspend, interrupted, depth, enq_order,
                 woken_rank, aborted>>
  /\ UNCHANGED wait_call
  /\ UNCHANGED jthreads
  /\ UNCHANGED jvmti
  /\ UNCHANGED <<safepointvars, handlevars, hs, exitvars, arming>>

(***************************************************************************)
(* Requests of other threads to a JavaThread                               *)
(***************************************************************************)

\* Another thread requests the suspension of the JavaThread t.
ExternalSuspend(t) ==
  /\ ~ aborted
  /\ is_Java_thread(t)
  /\ ~ external_suspend[t]
  /\ external_suspend' = [external_suspend EXCEPT ![t] = TRUE]
  /\ UNCHANGED <<owner, recursions, entry_list, wait_set, waiters,
                 RawMonitor_lock, mpc, cont, t_state, park_event, save,
                 ret, w, ev, millis, all, interrupted, depth, enq_order,
                 woken_rank, aborted>>
  /\ UNCHANGED wait_call
  /\ UNCHANGED jthreads
  /\ UNCHANGED jvmti
  /\ UNCHANGED <<safepointvars, handlevars, hs, exitvars, arming>>

\* Another thread resumes the JavaThread t.
ExternalResume(t) ==
  /\ ~ aborted
  /\ is_Java_thread(t)
  /\ external_suspend[t]
  /\ external_suspend' = [external_suspend EXCEPT ![t] = FALSE]
  /\ UNCHANGED <<owner, recursions, entry_list, wait_set, waiters,
                 RawMonitor_lock, mpc, cont, t_state, park_event, save,
                 ret, w, ev, millis, all, interrupted, depth, enq_order,
                 woken_rank, aborted>>
  /\ UNCHANGED wait_call
  /\ UNCHANGED jthreads
  /\ UNCHANGED jvmti
  /\ UNCHANGED <<safepointvars, handlevars, hs, exitvars, arming>>

\* The thread is inside raw_wait and its park() has not returned yet.
BeforeWake(t) ==
  \/ mpc[t] \in {"wq_lock", "sw_after_exit", "sw_park"}
  \/ cont[t] = "sw_after_exit"

\* Another thread interrupts the JavaThread t: the interrupt state is set and
\* the park event of the thread is unparked.
Interrupt(t) ==
  /\ ~ aborted
  /\ is_Java_thread(t)
  /\ ~ interrupted[t]
  /\ park_event' = [park_event EXCEPT ![t] = TRUE]
  /\ interrupted' = [interrupted EXCEPT ![t] = TRUE]
  /\ UNCHANGED <<owner, recursions, entry_list, wait_set, waiters,
                 RawMonitor_lock, mpc, cont, t_state, save, ret, w, ev,
                 millis, all, external_suspend, depth, enq_order,
                 woken_rank, aborted>>
  /\ wait_call' = IF BeforeWake(t)
                  THEN [wait_call EXCEPT ![t].intr = TRUE]
                  ELSE wait_call
  /\ UNCHANGED jthreads
  /\ UNCHANGED jvmti
  /\ UNCHANGED <<safepointvars, handlevars, hs, exitvars, arming>>

(***************************************************************************)
(* JvmtiEnv::RawMonitorEnter of a JavaThread.  Agent code runs in the      *)
(* state _thread_in_native with a walkable frame; RawMonitorEnter stores   *)
(* _thread_blocked without a poll, calls raw_enter() (which tests that     *)
(* state, line 347) and stores the former state again.  RawMonitorExit     *)
(* calls raw_exit() in the state it finds.                                 *)
(***************************************************************************)

\* Number of RawMonitorEnter calls one thread makes.
MaxEnterCalls == 1

\* RawMonitorEnter: current_thread->set_thread_state(_thread_blocked).
JvmtiEnter_SetBlocked(t) ==
  /\ ~ aborted
  /\ wpc[t] = "native"
  /\ mpc[t] = "idle"
  /\ jvmti[t].pc = "out"
  /\ jvmti[t].calls < MaxEnterCalls
  /\ thread_state' = [thread_state EXCEPT ![t] = "_thread_blocked"]
  /\ jvmti' = [jvmti EXCEPT ![t] = [pc |-> "enter_call", calls |-> @.calls + 1]]
  /\ UNCHANGED <<registered, safepoint_id, safepoint_safe, local_poll,
                 is_ext_suspended, in_critical, walkable, wpc, blk_state,
                 blk_id>>
  /\ UNCHANGED <<spglobals, vmlocals, cleanupvars, timeoutvars, handlevars, hs, exitvars,
                 arming>>
  /\ UNCHANGED <<owner, recursions, entry_list, wait_set, waiters,
                 RawMonitor_lock, mpc, cont, t_state, park_event, save, ret,
                 w, ev, millis, all, external_suspend, interrupted, depth,
                 enq_order, woken_rank, aborted, wait_call, jthreads>>

\* RawMonitorEnter: raw_enter() has returned;
\* current_thread->set_thread_state(state), the state is _thread_in_native.
JvmtiEnter_Restore(t) ==
  /\ ~ aborted
  /\ jvmti[t].pc = "enter_ret"
  /\ mpc[t] = "idle"
  /\ thread_state' = [thread_state EXCEPT ![t] = "_thread_in_native"]
  /\ jvmti' = [jvmti EXCEPT ![t].pc = "out"]
  /\ UNCHANGED <<registered, safepoint_id, safepoint_safe, local_poll,
                 is_ext_suspended, in_critical, walkable, wpc, blk_state,
                 blk_id>>
  /\ UNCHANGED <<spglobals, vmlocals, cleanupvars, timeoutvars, handlevars, hs, exitvars,
                 arming>>
  /\ UNCHANGED <<owner, recursions, entry_list, wait_set, waiters,
                 RawMonitor_lock, mpc, cont, t_state, park_event, save, ret,
                 w, ev, millis, all, external_suspend, interrupted, depth,
                 enq_order, woken_rank, aborted, wait_call, jthreads>>

\* RawMonitorEnter calls raw_enter().
Jvmti_RawEnter(t) == jvmti[t].pc = "enter_call" /\ RawEnter(t)

\* RawMonitorExit, called by agent code, calls raw_exit().
Jvmti_RawExit(t) ==
  /\ wpc[t] = "native"
  /\ jvmti[t].pc = "out"
  /\ RawExit(t)

(***************************************************************************)
(* The specification of the safepoint protocol                             *)
(***************************************************************************)

\* The steps of the VM thread outside do_cleanup_tasks().
\* The steps of the VM thread inside begin() and end().
VMRun ==
  \/ VM_SetCounts \/ VM_ArmBarrier \/ VM_StoreCounterOdd
  \/ VM_SetSynchronizing \/ VM_ArmPoll \/ VM_StartSynchronize
  \/ VM_LoadState \/ VM_LoadId \/ VM_ReloadState \/ VM_Classify
  \/ VM_PassDone \/ VM_SetSynchronized
  \/ VM_SetNotSynchronized \/ VM_StoreCounterEven \/ VM_Restart
  \/ VM_Unlock \/ VM_Disarm

VMNext == VM_Begin \/ VMRun

WorkerNext(t) ==
  \/ Poll(t)
  \/ CallNative(t)
  \/ ReturnNative(t) \/ SuspendSelf(t) \/ Resume(t)
  \/ TransPoll(t) \/ TransDone(t) \/ Unregister(t)
  \/ Block_Load(t) \/ Block_SetId(t) \/ Block_SetBlocked(t)
  \/ Block_Wait(t) \/ Block_Restore(t) \/ Block_ResetId(t)

Init == SafepointInit /\ TimeoutOff /\ CleanupInit /\ MonitorInit

Next == VMNext \/ VM_DoCleanup \/ (\E t \in Workers : WorkerNext(t))

Spec == Init /\ [][Next]_vars

\* The safepoint protocol with -XX:+SafepointTimeout and the default
\* -XX:-AbortVMOnSafepointTimeout.
TimeoutInit ==
  SafepointInit /\ TimeoutStart(TRUE, FALSE) /\ CleanupInit /\ MonitorInit

TimeoutNext == TimePasses \/ Next

SpecTimeout == TimeoutInit /\ [][TimeoutNext]_vars

\* The safepoint protocol with threads that exit step by step.
ExitNext(t) ==
  \/ Exit_Start(t) \/ Exit_Lock(t) \/ Exit_Wake(t) \/ Exit_Remove(t)

NextExit == Next \/ (\E t \in Workers : ExitNext(t))

SpecExit == Init /\ [][NextExit]_vars

\* Every thread is in a native method; its stack is walkable or not (the
\* wrapper of a compiled native method leaves the anchor without a pc).
ExamineInit ==
  /\ state = "_not_synchronized"
  /\ safepoint_counter = 0
  /\ waiting_to_block = 0
  /\ current_jni_active_count = 0
  /\ wait_barrier = 0
  /\ Threads_lock = "free"
  /\ vmpc = "idle"
  /\ nof_threads = 0
  /\ todo = {}
  /\ tss = {}
  /\ still_running = 0
  /\ first_pass = FALSE
  /\ initial_running = 0
  /\ ld_state = "_thread_in_Java"
  /\ hs = NoHandshake
  /\ NoSpecial
  /\ arming = NotArming
  /\ registered = Workers
  /\ thread_state = [t \in Workers |-> "_thread_in_native"]
  /\ safepoint_id = [t \in Workers |-> InactiveSafepointCounter]
  /\ safepoint_safe = [t \in Workers |-> FALSE]
  /\ local_poll = [t \in Workers |-> FALSE]
  /\ is_ext_suspended = [t \in Workers |-> FALSE]
  /\ in_critical = [t \in Workers |-> calls_critical_native(t)]
  /\ walkable \in [Workers -> BOOLEAN]
  /\ wpc = [t \in Workers |-> "native"]
  /\ blk_state = [t \in Workers |-> "_thread_in_Java"]
  /\ blk_id = [t \in Workers |-> 0]
  /\ TimeoutOff
  /\ CleanupInit
  /\ MonitorInit

\* Safepoints over threads in every state examine_state_of_thread() can
\* find: in a native method with and without a walkable stack, in Java
\* code, in a transition, in the VM on the way out, blocked and suspended.
SpecExamine == ExamineInit /\ [][NextExit]_vars

(***************************************************************************)
(* SafepointSynchronize::handshake_safe, called by the VM thread outside   *)
(* a safepoint with the Threads_lock held                                  *)
(***************************************************************************)

\* JavaThread::is_terminated()
is_terminated(t) == wpc[t] = "terminated"

\* The VM thread, holding no safepoint, takes the Threads_lock and calls
\* handshake_safe(thread): the precondition asserted at lines 727-728.
HS_Start ==
  /\ vmpc = "idle"
  /\ Threads_lock = "free"
  /\ Threads_lock' = "vm"
  /\ \E t \in Workers : hs' = [thread |-> t, sid |-> 0, result |-> "none"]
  /\ vmpc' = "hs_check"
  /\ UNCHANGED <<state, safepoint_counter, waiting_to_block,
                 current_jni_active_count, wait_barrier>>
  /\ UNCHANGED <<nof_threads, todo, tss, still_running, first_pass,
                 initial_running, ld_state>>
  /\ UNCHANGED perthread
  /\ UNCHANGED <<cleanupvars, rmvars, handlevars, timeoutvars, exitvars,
                 arming>>

\* handshake_safe(), lines 729-731: a suspended or terminated thread is safe.
HS_Check ==
  /\ vmpc = "hs_check"
  /\ IF is_ext_suspended[hs.thread] \/ is_terminated(hs.thread)
       THEN /\ hs' = [hs EXCEPT !.result = "true"]
            /\ vmpc' = "hs_done"
       ELSE /\ vmpc' = "hs_state"
            /\ UNCHANGED hs
  /\ UNCHANGED <<state, safepoint_counter, waiting_to_block,
                 current_jni_active_count, wait_barrier, Threads_lock>>
  /\ UNCHANGED <<nof_threads, todo, tss, still_running, first_pass,
                 initial_running, ld_state>>
  /\ UNCHANGED perthread
  /\ UNCHANGED <<cleanupvars, rmvars, handlevars, timeoutvars, exitvars,
                 arming>>

\* try_stable_load_state(): *state = thread->thread_state().
HS_LoadState ==
  /\ vmpc = "hs_state"
  /\ ld_state' = thread_state[hs.thread]
  /\ vmpc' = "hs_id"
  /\ UNCHANGED hs
  /\ UNCHANGED <<state, safepoint_counter, waiting_to_block,
                 current_jni_active_count, wait_barrier, Threads_lock>>
  /\ UNCHANGED <<nof_threads, todo, tss, still_running, first_pass,
                 initial_running>>
  /\ UNCHANGED perthread
  /\ UNCHANGED <<cleanupvars, rmvars, handlevars, timeoutvars, exitvars,
                 arming>>

\* Faulty variant: the id of the thread is read and not tested.
HS_LoadId_unchecked ==
  /\ vmpc = "hs_id"
  /\ hs' = [hs EXCEPT !.sid = safepoint_id[hs.thread]]
  /\ vmpc' = "hs_reload"
  /\ UNCHANGED <<state, safepoint_counter, waiting_to_block,
                 current_jni_active_count, wait_barrier, Threads_lock>>
  /\ UNCHANGED <<nof_threads, todo, tss, still_running, first_pass,
                 initial_running, ld_state>>
  /\ UNCHANGED perthread
  /\ UNCHANGED <<cleanupvars, rmvars, handlevars, timeoutvars, exitvars,
                 arming>>

\* try_stable_load_state() called with InactiveSafepointCounter: sid =
\* get_safepoint_id(); an id that is not inactive makes the read unstable
\* and handshake_safe() returns false.
HS_LoadId ==
  /\ vmpc = "hs_id"
  /\ LET sid == safepoint_id[hs.thread] IN
       IF stable_safepoint_id(sid, InactiveSafepointCounter)
         THEN /\ hs' = [hs EXCEPT !.sid = sid]
              /\ vmpc' = "hs_reload"
         ELSE /\ hs' = [hs EXCEPT !.sid = sid, !.result = "false"]
              /\ vmpc' = "hs_done"
  /\ UNCHANGED <<state, safepoint_counter, waiting_to_block,
                 current_jni_active_count, wait_barrier, Threads_lock>>
  /\ UNCHANGED <<nof_threads, todo, tss, still_running, first_pass,
                 initial_running, ld_state>>
  /\ UNCHANGED perthread
  /\ UNCHANGED <<cleanupvars, rmvars, handlevars, timeoutvars, exitvars,
                 arming>>

\* try_stable_load_state(): return *state == thread->thread_state(); then
\* handshake_safe() returns safepoint_safe_with(thread, stable_state), or
\* false when the two reads differ.
HS_ReloadState ==
  /\ vmpc = "hs_reload"
  /\ hs' = [hs EXCEPT !.result =
              IF /\ ld_state = thread_state[hs.thread]
                 /\ safepoint_safe_with(hs.thread, ld_state)
                THEN "true" ELSE "false"]
  /\ vmpc' = "hs_done"
  /\ UNCHANGED <<state, safepoint_counter, waiting_to_block,
                 current_jni_active_count, wait_barrier, Threads_lock>>
  /\ UNCHANGED <<nof_threads, todo, tss, still_running, first_pass,
                 initial_running, ld_state>>
  /\ UNCHANGED perthread
  /\ UNCHANGED <<cleanupvars, rmvars, handlevars, timeoutvars, exitvars,
                 arming>>

\* handshake_safe() has returned; the caller releases the Threads_lock.
HS_End ==
  /\ vmpc = "hs_done"
  /\ Threads_lock' = "free"
  /\ hs' = NoHandshake
  /\ ld_state' = "_thread_in_Java"
  /\ vmpc' = "idle"
  /\ UNCHANGED <<state, safepoint_counter, waiting_to_block,
                 current_jni_active_count, wait_barrier>>
  /\ UNCHANGED <<nof_threads, todo, tss, still_running, first_pass,
                 initial_running>>
  /\ UNCHANGED perthread
  /\ UNCHANGED <<cleanupvars, rmvars, handlevars, timeoutvars, exitvars,
                 arming>>

HandshakeNext ==
  \/ HS_Start \/ HS_Check \/ HS_LoadState \/ HS_LoadId \/ HS_ReloadState
  \/ HS_End

\* Safepoints and handshake queries of the VM thread over threads that run,
\* block, are suspended and exit.
NextHandshake == NextExit \/ HandshakeNext

SpecHandshake == Init /\ [][NextHandshake]_vars

\* One thread on the thread list, in the state ts and at the position pc; the
\* other threads have terminated.  No safepoint has run.
TheWorker == 1

OneWorkerInit(ts, wk, pc) ==
  /\ state = "_not_synchronized"
  /\ safepoint_counter = 0
  /\ waiting_to_block = 0
  /\ current_jni_active_count = 0
  /\ wait_barrier = 0
  /\ Threads_lock = "free"
  /\ vmpc = "idle"
  /\ nof_threads = 0
  /\ todo = {}
  /\ tss = {}
  /\ still_running = 0
  /\ first_pass = FALSE
  /\ initial_running = 0
  /\ ld_state = "_thread_in_Java"
  /\ hs = NoHandshake
  /\ registered = {TheWorker}
  /\ thread_state = [t \in Workers |-> IF t = TheWorker THEN ts
                                       ELSE "_thread_in_Java"]
  /\ safepoint_id = [t \in Workers |-> InactiveSafepointCounter]
  /\ safepoint_safe = [t \in Workers |-> FALSE]
  /\ local_poll = [t \in Workers |-> FALSE]
  /\ is_ext_suspended = [t \in Workers |-> FALSE]
  /\ in_critical = [t \in Workers |-> FALSE]
  /\ walkable = [t \in Workers |-> t = TheWorker /\ wk]
  /\ wpc = [t \in Workers |-> IF t = TheWorker THEN pc ELSE "terminated"]
  /\ blk_state = [t \in Workers |-> "_thread_in_Java"]
  /\ blk_id = [t \in Workers |-> 0]
  /\ TimeoutOff
  /\ CleanupInit
  /\ MonitorInit

\* The steps of a thread that stays in Java code: it polls and blocks.
JavaWorkerNext(t) ==
  \/ Poll(t)
  \/ Block_Load(t) \/ Block_SetId(t) \/ Block_SetBlocked(t)
  \/ Block_Wait(t) \/ Block_Restore(t) \/ Block_ResetId(t)

\* Safepoints with a single thread, which runs Java code.
InitJava ==
  /\ OneWorkerInit("_thread_in_Java", FALSE, "java")
  /\ NoSpecial
  /\ arming = NotArming

NextJava == VMNext \/ VM_DoCleanup \/ JavaWorkerNext(TheWorker)

SpecJava == InitJava /\ [][NextJava]_vars

FairJava ==
  /\ InitJava /\ [][NextJava]_vars
  /\ WF_vars(VMNext \/ VM_DoCleanup)
  /\ WF_vars(JavaWorkerNext(TheWorker))

\* The steps of a thread that is in a native method: it may return, polls
\* in the transition and in the Java code it returns to, and blocks.
NativeWorkerNext(t) ==
  \/ ReturnNative(t) \/ TransPoll(t) \/ TransDone(t)
  \/ Poll(t)
  \/ Block_Load(t) \/ Block_SetId(t) \/ Block_SetBlocked(t)
  \/ Block_Wait(t) \/ Block_Restore(t) \/ Block_ResetId(t)

\* Safepoints with a single thread, which is in a native method with a
\* walkable stack.
InitNative ==
  /\ OneWorkerInit("_thread_in_native", TRUE, "native")
  /\ NoSpecial
  /\ arming = NotArming

NextNative == VMNext \/ VM_DoCleanup \/ NativeWorkerNext(TheWorker)

SpecNative == InitNative /\ [][NextNative]_vars

(***************************************************************************)
(* The specification of the cleanup dispatcher: the VM thread runs         *)
(* safepoints while every Java thread stays inside a native call, and      *)
(* do_cleanup_tasks() is taken step by step, in both of its modes.         *)
(***************************************************************************)

CleanupSpecInit ==
  /\ state = "_not_synchronized"
  /\ safepoint_counter = 0
  /\ waiting_to_block = 0
  /\ current_jni_active_count = 0
  /\ wait_barrier = 0
  /\ Threads_lock = "free"
  /\ vmpc = "idle"
  /\ nof_threads = 0
  /\ todo = {}
  /\ tss = {}
  /\ still_running = 0
  /\ first_pass = FALSE
  /\ initial_running = 0
  /\ ld_state = "_thread_in_Java"
  /\ hs = NoHandshake
  /\ NoSpecial
  /\ arming = NotArming
  /\ registered = Workers
  /\ thread_state = [t \in Workers |-> "_thread_in_native"]
  /\ safepoint_id = [t \in Workers |-> InactiveSafepointCounter]
  /\ safepoint_safe = [t \in Workers |-> FALSE]
  /\ local_poll = [t \in Workers |-> FALSE]
  /\ is_ext_suspended = [t \in Workers |-> FALSE]
  /\ in_critical = [t \in Workers |-> FALSE]
  /\ walkable = [t \in Workers |-> TRUE]
  /\ wpc = [t \in Workers |-> "native"]
  /\ blk_state = [t \in Workers |-> "_thread_in_Java"]
  /\ blk_id = [t \in Workers |-> 0]
  /\ TimeoutOff
  /\ CleanupInit
  /\ MonitorInit

CleanupNext ==
  \/ \E n \in 0..MaxCleanupWorkers : VM_StartCleanup(n)
  \/ \E g \in CleanupThreads :
        \/ CleanupClaim(g)
        \/ CleanupCompleted(g)
  \/ VM_FinishCleanup

NextCleanup == VMNext \/ CleanupNext

SpecCleanup == CleanupSpecInit /\ [][NextCleanup]_vars

(***************************************************************************)
(* Fairness: the VM thread keeps running; a Java thread in Java code polls *)
(* and a thread inside a transition or inside block() keeps running.  A    *)
(* native call may last forever, and nothing forces a suspension, a resume *)
(* or a thread exit.                                                       *)
(***************************************************************************)

WorkerProgress(t) ==
  \/ Poll(t) \/ TransPoll(t) \/ TransDone(t)
  \/ Block_Load(t) \/ Block_SetId(t) \/ Block_SetBlocked(t)
  \/ Block_Wait(t) \/ Block_Restore(t) \/ Block_ResetId(t)

FairSpec ==
  /\ Init /\ [][Next]_vars
  /\ WF_vars(VMNext \/ VM_DoCleanup)
  /\ \A t \in Workers : WF_vars(WorkerProgress(t))

\* Fairness: as in FairSpec, and a thread that has started to exit goes on.
ExitProgress(t) == Exit_Lock(t) \/ Exit_Wake(t) \/ Exit_Remove(t)

FairExit ==
  /\ Init /\ [][NextExit]_vars
  /\ WF_vars(VMNext \/ VM_DoCleanup)
  /\ \A t \in Workers : WF_vars(WorkerProgress(t))
  /\ \A t \in Workers : WF_vars(ExitProgress(t))

\* Fairness: the VM thread runs, and so does a thread at a poll, in a
\* transition or inside block(); nothing forces the native method to return.
FairNative ==
  /\ InitNative /\ [][NextNative]_vars
  /\ WF_vars(VMNext \/ VM_DoCleanup)
  /\ WF_vars(WorkerProgress(TheWorker))

(***************************************************************************)
(* The specification of the raw monitor                                    *)
(***************************************************************************)

\* The steps of a thread inside raw_enter and raw_exit, and the suspension
\* requests a JavaThread gets.
EnterExitNext(t) ==
  \/ RawEnter(t) \/ RE_After(t) \/ RE_Suspended(t)
  \/ SE_CAS(t) \/ SE_Lock(t) \/ SE_Recheck(t) \/ SE_Park(t)
  \/ RawExit(t) \/ RX_Return(t)
  \/ SX_Release(t) \/ SX_Read(t) \/ SX_Lock(t) \/ SX_SetRun(t) \/ SX_Unpark(t)
  \/ ExternalSuspend(t) \/ ExternalResume(t)

\* The steps of a thread inside raw_wait, raw_notify and raw_notifyAll, and
\* the interrupts a JavaThread gets.
WaitNotifyNext(t) ==
  \/ (\E m \in MillisValues : RawWait(t, m))
  \/ WQ_Lock(t) \/ SW_AfterExit(t) \/ SW_Park(t) \/ SW_PostCheck(t)
  \/ DQ_Check(t) \/ DQ_Lock(t) \/ SW_Reentered(t)
  \/ RW_Check(t) \/ RW_Suspended(t)
  \/ (\E a \in BOOLEAN : RawNotify(t, a))
  \/ SN_Lock(t) \/ SN_Loop(t) \/ SN_Unpark(t)
  \/ Interrupt(t)

\* Every thread of MonThreads contends for the monitor with raw_enter and
\* raw_exit.
ContendNext == \E t \in MonThreads : EnterExitNext(t)

SpecContend == Init /\ [][ContendNext]_vars

\* The threads of WaitThreads use every operation of the monitor.
MonNext == \E t \in WaitThreads : EnterExitNext(t) \/ WaitNotifyNext(t)

SpecMonitor == Init /\ [][MonNext]_vars

(***************************************************************************)
(* Raw monitor handles: creation, destruction and JvmtiRawMonitor::is_valid *)
(***************************************************************************)

\* is_valid(), lines 79-105: the four bytes at &_magic, read through the
\* handle, are compared with JVMTI_RM_MAGIC.
is_valid(a) == magic[a] = JVMTI_RM_MAGIC

\* The handle's monitor has not been destroyed.
Live(h) == rm_at[h.addr] = h.id

\* raw_monitor_create: operator new takes free storage and the constructor,
\* lines 59-69, stores JVMTI_RM_MAGIC in _magic; the agent gets the address
\* as the handle.
RawMonitorCreate ==
  /\ Cardinality(handles) < MaxHandles
  /\ \E a \in Slots :
       /\ rm_at[a] = NoMonitor
       /\ magic' = [magic EXCEPT ![a] = JVMTI_RM_MAGIC]
       /\ rm_at' = [rm_at EXCEPT ![a] = Cardinality(handles) + 1]
       /\ handles' = handles \cup {[id |-> Cardinality(handles) + 1, addr |-> a]}
  /\ UNCHANGED <<validated, safepointvars, rmvars, hs, exitvars, arming>>

\* raw_monitor_destroy of a live monitor: the destructor, lines 71-76, clears
\* _magic and the storage goes back to the C heap.  The agent keeps the
\* handle.
RawMonitorDestroy ==
  /\ \E h \in handles :
       /\ Live(h)
       /\ magic' = [magic EXCEPT ![h.addr] = 0]
       /\ rm_at' = [rm_at EXCEPT ![h.addr] = NoMonitor]
  /\ UNCHANGED <<handles, validated, safepointvars, rmvars, hs, exitvars,
                 arming>>

\* The agent passes one of its handles to an entry point, which calls
\* is_valid() on it.  The storage of a destroyed monitor is read as it is:
\* it holds the 0 of the destructor until a later monitor is placed there.
RawMonitorValidate ==
  /\ \E h \in handles :
       validated' = [id |-> h.id, live |-> Live(h), result |-> is_valid(h.addr)]
  /\ UNCHANGED <<magic, rm_at, handles, safepointvars, rmvars, hs, exitvars,
                 arming>>

HandleNext == RawMonitorCreate \/ RawMonitorDestroy \/ RawMonitorValidate

SpecHandle == Init /\ [][HandleNext]_vars

(***************************************************************************)
(* The raw monitor during safepoints: the workers are JavaThreads whose    *)
(* native methods use the monitor with RawMonitorEnter and RawMonitorExit, *)
(* while the VM thread runs safepoints.                                    *)
(***************************************************************************)

\* Every worker is inside the native method of the agent (the state after
\* CallNative) and stays there, no safepoint has run, the monitor is free.
AgentInit ==
  /\ state = "_not_synchronized"
  /\ safepoint_counter = 0
  /\ waiting_to_block = 0
  /\ current_jni_active_count = 0
  /\ wait_barrier = 0
  /\ Threads_lock = "free"
  /\ vmpc = "idle"
  /\ nof_threads = 0
  /\ todo = {}
  /\ tss = {}
  /\ still_running = 0
  /\ first_pass = FALSE
  /\ initial_running = 0
  /\ ld_state = "_thread_in_Java"
  /\ hs = NoHandshake
  /\ NoSpecial
  /\ arming = NotArming
  /\ registered = Workers
  /\ thread_state = [t \in Workers |-> "_thread_in_native"]
  /\ safepoint_id = [t \in Workers |-> InactiveSafepointCounter]
  /\ safepoint_safe = [t \in Workers |-> FALSE]
  /\ local_poll = [t \in Workers |-> FALSE]
  /\ is_ext_suspended = [t \in Workers |-> FALSE]
  /\ in_critical = [t \in Workers |-> calls_critical_native(t)]
  /\ walkable = [t \in Workers |-> TRUE]
  /\ wpc = [t \in Workers |-> "native"]
  /\ blk_state = [t \in Workers |-> "_thread_in_Java"]
  /\ blk_id = [t \in Workers |-> 0]
  /\ TimeoutOff
  /\ CleanupInit
  /\ MonitorStart(Workers)

\* The steps of a worker inside RawMonitorEnter and RawMonitorExit, the
\* calls included.
AgentMonitorNext(t) ==
  \/ JvmtiEnter_SetBlocked(t) \/ Jvmti_RawEnter(t) \/ RE_After(t)
  \/ SE_CAS(t) \/ SE_Lock(t) \/ SE_Recheck(t) \/ SE_Park(t)
  \/ JvmtiEnter_Restore(t)
  \/ Jvmti_RawExit(t) \/ RX_Return(t)
  \/ SX_Release(t) \/ SX_Read(t) \/ SX_Lock(t) \/ SX_SetRun(t) \/ SX_Unpark(t)

\* Number of safepoints the VM thread runs while the monitor is in use.
MaxAgentSafepoints == 1

\* begin() of one of these safepoints.
Agent_Begin == safepoint_counter < 2 * MaxAgentSafepoints /\ VM_Begin

AgentNext ==
  \/ Agent_Begin \/ VMRun \/ VM_DoCleanup
  \/ \E t \in Workers : AgentMonitorNext(t)

SpecAgent == AgentInit /\ [][AgentNext]_vars

\* Fairness: a thread inside a call of the monitor keeps running, and so
\* does the VM thread.  Nothing forces a thread to call the monitor.
MonitorProgress(t) ==
  \/ Jvmti_RawEnter(t) \/ RE_After(t)
  \/ SE_CAS(t) \/ SE_Lock(t) \/ SE_Recheck(t) \/ SE_Park(t)
  \/ JvmtiEnter_Restore(t) \/ RX_Return(t)
  \/ SX_Release(t) \/ SX_Read(t) \/ SX_Lock(t) \/ SX_SetRun(t) \/ SX_Unpark(t)

FairAgent ==
  /\ AgentInit /\ [][AgentNext]_vars
  /\ WF_vars(Agent_Begin \/ VMRun \/ VM_DoCleanup)
  /\ \A t \in Workers : WF_vars(MonitorProgress(t))

(***************************************************************************)
(* Properties of the safepoint protocol                                    *)
(***************************************************************************)

\* The thread executes user (Java) code.
ExecutesUserCode(t) == wpc[t] = "java"

\* The thread is on its way back to Java code: it has left the barrier or
\* has passed the poll of its transition.
ReturnsToUserCode(t) == wpc[t] \in {"blk_woken", "blk_reset_id", "trans_done"}

\* The thread has left a native call and runs into block() at the armed poll.
StoppedAtPoll(t) ==
  /\ thread_state[t] = "_thread_in_native_trans"
  /\ wpc[t] \in {"trans", "blk_load", "blk_set_id", "blk_set_blocked"}
  /\ local_poll[t] \/ wpc[t] # "trans"

\* C1 (Exclusion): while the state is _synchronized no registered thread
\* executes user code or is on its way back to it; each one is suspended,
\* blocked, inside a native call, or stopped at the armed poll on its way out
\* of a native call.
C1_Exclusion ==
  state = "_synchronized" =>
    \A t \in registered :
      /\ ~ ExecutesUserCode(t)
      /\ ~ ReturnsToUserCode(t)
      /\ \/ is_ext_suspended[t]
         \/ thread_state[t] \in {"_thread_blocked", "_thread_in_native"}
         \/ StoppedAtPoll(t)

\* C1 witness: a synchronized safepoint with one thread parked on the barrier
\* and another one that has come back from its native call meanwhile.
C1_Witness ==
  /\ state = "_synchronized"
  /\ \E t \in registered : wpc[t] = "blk_wait" /\ blk_state[t] = "_thread_in_Java"
  /\ \E t \in registered : StoppedAtPoll(t)

\* The safepoint counter is odd.
CounterOdd == safepoint_counter % 2 = 1

\* C2 as stated (Parity): at every instant the counter is odd if and only if
\* the state is _synchronizing or _synchronized.
C2_ParityAsStated ==
  CounterOdd <=> state \in {"_synchronizing", "_synchronized"}

\* C2 amended: the counter is odd whenever the state is _synchronizing or
\* _synchronized, and it is odd in the state _not_synchronized only while the
\* VM thread stands between its two stores: in arm_safepoint() before
\* _state = _synchronizing, in disarm_safepoint() before the store of the
\* even counter.
C2_Parity ==
  /\ state \in {"_synchronizing", "_synchronized"} => CounterOdd
  /\ (CounterOdd /\ state = "_not_synchronized") =>
        vmpc \in {"set_synchronizing", "end_counter"}
  /\ vmpc \in {"set_synchronizing", "end_counter"} =>
        (CounterOdd /\ state = "_not_synchronized")

\* C2 witness: the window in disarm_safepoint().
C2_Witness ==
  vmpc = "end_counter" /\ CounterOdd /\ state = "_not_synchronized"

\* C3 (Progress): a begin() that has taken the Threads_lock reaches the
\* state _synchronized.
C3_Progress == (vmpc = "set_counts") ~> (state = "_synchronized")

\* C3 witness: begin() got there although a thread was found running by the
\* first iteration and had to poll.
C3_Witness ==
  /\ state = "_synchronized"
  /\ vmpc = "cleanup"
  /\ initial_running > 0

\* The edges of the cycle of the state.
StateCycle == { <<"_not_synchronized", "_synchronizing">>,
                <<"_synchronizing", "_synchronized">>,
                <<"_synchronized", "_not_synchronized">> }

\* C4: the state changes only in a step of the VM thread and only along the
\* cycle; begin() starts in _not_synchronized and end() in _synchronized.
C4_StateCycle ==
  [][ /\ state' # state =>
           /\ <<state, state'>> \in StateCycle
           /\ vmpc' # vmpc
           /\ wpc' = wpc
      /\ (vmpc = "idle" /\ vmpc' # "idle") => state = "_not_synchronized"
      /\ (vmpc = "end" /\ vmpc' # "end") => state = "_synchronized"
    ]_vars

\* C4 witness: a second safepoint has gone round the cycle.
C4_Witness ==
  /\ safepoint_counter = 4
  /\ state = "_not_synchronized"
  /\ vmpc = "idle"

\* C5: in the state _synchronized the counter is odd, nothing is waited for
\* and every registered thread is marked safe.
C5_Synchronized ==
  state = "_synchronized" =>
    /\ CounterOdd
    /\ waiting_to_block = 0
    /\ \A t \in registered : safepoint_safe[t]

\* C5 witness: a synchronized safepoint over all the threads.
C5_Witness ==
  /\ state = "_synchronized"
  /\ registered = Workers
  /\ \A t \in Workers : safepoint_safe[t]

(***************************************************************************)
(* The cleanup dispatcher (SpecCleanup)                                    *)
(***************************************************************************)

\* The position of subtask k in work().
TaskIndex(k) == CHOOSE i \in 1..Len(CleanupTasks) : CleanupTasks[i] = k

\* Some thread of the crew is past the claim of subtask k.
ClaimTried(k) == \E g \in CleanupThreads : cpc[g] > TaskIndex(k)

\* work() has returned in every thread of the crew of this safepoint.
CleanupDone == vmpc = "cleanup_run" /\ CleanupJoined

\* C6 (Idempotent cleanup claim): within one safepoint, whatever the number
\* of threads that run work() concurrently, the claim of each subtask never
\* succeeds twice, and it has succeeded for one thread as soon as any thread
\* is past it: exactly one thread wins each subtask.
C6_ClaimOnce ==
  \A k \in TaskSet :
    /\ claim_wins[k] <= 1
    /\ ClaimTried(k) => claim_wins[k] = 1

\* Witness of C6: a gang of MaxCleanupWorkers threads has finished work(),
\* every subtask was claimed once.
C6_Witness ==
  /\ CleanupDone
  /\ num_workers = MaxCleanupWorkers
  /\ threads_completed = MaxCleanupWorkers
  /\ \A k \in TaskSet : claim_wins[k] = 1

\* C7 as stated: when the cleanup of a safepoint is over, the operation of
\* each subtask, the two rehash operations included, has run exactly once.
C7_RunsOnceAsStated ==
  CleanupDone => \A k \in TaskSet : task_runs[k] = 1

\* C7 (amended): in the gang mode and in the serial mode, no operation of a
\* subtask runs twice in a safepoint; when the cleanup is over, every
\* subtask has been claimed once, the operations of the subtasks other than
\* the rehashes have run exactly once, and a rehash has run once if its
\* table needed rehashing and not at all otherwise.
C7_RunsOnce ==
  \A k \in TaskSet :
    /\ task_runs[k] <= 1
    /\ CleanupDone =>
         /\ claim_wins[k] = 1
         /\ task_runs[k] =
              IF k \in RehashTasks /\ ~ needs_rehashing[k] THEN 0 ELSE 1

\* Witness of C7: the serial cleanup on the VM thread is over; the symbol
\* table was rehashed, the string table did not need it.
C7_Witness ==
  /\ CleanupDone
  /\ cpc[0] # 0
  /\ needs_rehashing["SYMBOL_TABLE_REHASH"]
  /\ ~ needs_rehashing["STRING_TABLE_REHASH"]
  /\ task_runs["SYMBOL_TABLE_REHASH"] = 1
  /\ task_runs["STRING_TABLE_REHASH"] = 0

(***************************************************************************)
(* The raw monitor (SpecMonitor, SpecContend)                              *)
(***************************************************************************)

\* The thread is inside raw_wait.
InsideWait(t) ==
  \/ mpc[t] \in {"wq_lock", "sw_after_exit", "sw_park", "sw_postcheck",
                 "dq_check", "dq_lock", "sw_reentered", "rw_check",
                 "rw_suspended"}
  \/ cont[t] \in {"sw_after_exit", "sw_reentered", "rw_suspended", "rw_check"}

\* The thread is inside raw_wait and has given the monitor up there.
WaitReleased(t) ==
  /\ InsideWait(t)
  /\ mpc[t] # "wq_lock"
  /\ ~ (mpc[t] = "sx_release" /\ cont[t] = "sw_after_exit")

\* The thread has returned from raw_enter (or from raw_wait) and has not
\* released the monitor since, neither by its outermost raw_exit nor by
\* waiting.
Holding(t) == depth[t] > 0 /\ ~ WaitReleased(t)

\* C8 (Monitor recursion): a thread outside every call that has entered k
\* times more often than it has exited is the owner with _recursions = k - 1
\* if k > 0 and is not the owner if k = 0.  Each raw_exit of a thread with
\* k > 1 returns M_OK and leaves it the owner with _recursions one less; the
\* raw_exit with k = 1 goes through simple_exit, where the owner becomes NULL,
\* which happens in no other exit, and returns M_OK with the thread no
\* longer the owner.
C8_Recursion ==
  [][ \A t \in MonThreads :
        /\ (mpc[t] = "idle" /\ depth[t] > 0) =>
              (owner = t /\ recursions = depth[t] - 1)
        /\ (mpc[t] = "idle" /\ depth[t] = 0) => owner # t
        /\ (RawExit(t) /\ depth[t] > 1) =>
              /\ ret'[t] = "M_OK"
              /\ mpc'[t] = "idle"
              /\ owner' = t
              /\ recursions' = recursions - 1
              /\ depth'[t] = depth[t] - 1
        /\ (RawExit(t) /\ depth[t] = 1) =>
              (mpc'[t] = "sx_release" /\ owner' = t /\ recursions' = 0)
        /\ (owner = t /\ owner' # t /\ cont[t] = "rx_ret") =>
              (depth[t] = 1 /\ depth'[t] = 0 /\ owner' = NULL)
        /\ (mpc[t] = "rx_ret" /\ mpc'[t] = "idle") =>
              (ret'[t] = "M_OK" /\ depth'[t] = 0 /\ owner' # t)
    ]_vars

\* Witness of C8: the outermost raw_exit has released the monitor and is
\* about to return.
C8_Witness ==
  \E t \in MonThreads :
    /\ mpc[t] = "rx_ret"
    /\ depth[t] = 0
    /\ owner = NULL
    /\ recursions = 0
    /\ ret[t] = "M_OK"

\* An exit has unlinked a contender from the entry list and is about to
\* wake it.
Waking(t) == mpc[t] \in {"sx_setrun", "sx_unpark"}

\* C9 as stated (Monitor FIFO): the contender an exit wakes is the one that
\* was enqueued first among those queued.
C9_FifoAsStated ==
  \A t \in MonThreads : Waking(t) => woken_rank[t].rank = 1

\* C9 (amended): the entry list is a stack.  The contender an exit wakes is
\* the one that was enqueued last among those queued; a contender enqueued
\* earlier stays queued until a later exit.
C9_Lifo ==
  \A t \in MonThreads :
    Waking(t) => (woken_rank[t].rank = woken_rank[t].queued
                  /\ woken_rank[t].queued >= 1)

\* Witness of C9: two contenders were queued, the exit has unlinked the
\* second one, the first one is still on the entry list.
C9_Witness ==
  \E t \in MonThreads :
    /\ mpc[t] = "sx_setrun"
    /\ woken_rank[t] = [rank |-> 2, queued |-> 2]
    /\ Len(entry_list) = 1
    /\ enq_order = entry_list

\* C10 (Mutual exclusion): at most one thread holds the monitor, and the
\* thread that holds it is the owner.
C10_MutualExclusion ==
  \A t, u \in MonThreads :
    /\ (Holding(t) /\ Holding(u)) => t = u
    /\ (Holding(t) /\ ~ aborted) => owner = t

\* Witness of C10: a thread holds the monitor again while the contender its
\* exit has woken has not tried again yet, and the other thread has been
\* through a wait.
C10_Witness ==
  \E t, u \in MonThreads :
    /\ t # u
    /\ Holding(t)
    /\ mpc[t] = "idle"
    /\ mpc[u] = "se_park"
    /\ t_state[u] = "TS_RUN"
    /\ cont[u] = "sw_reentered"

\* The step is a call of raw_exit, raw_wait, raw_notify or raw_notifyAll by
\* thread t.
CallsOwnerOperation(t) ==
  \/ RawExit(t)
  \/ \E m \in MillisValues : RawWait(t, m)
  \/ \E a \in BOOLEAN : RawNotify(t, a)

\* C11: a raw_exit, raw_wait, raw_notify or raw_notifyAll of a thread that is
\* not the owner, the monitor without an owner included, returns at once with
\* M_ILLEGAL_MONITOR_STATE and leaves _owner, _recursions, _entry_list,
\* _wait_set and _waiters as they are.
C11_NonOwner ==
  [][ \A t \in MonThreads :
        (owner # t /\ CallsOwnerOperation(t)) =>
           /\ ret'[t] = "M_ILLEGAL_MONITOR_STATE"
           /\ mpc'[t] = "idle"
           /\ UNCHANGED <<owner, recursions, entry_list, wait_set, waiters>>
    ]_vars

\* Witness of C11: a call got M_ILLEGAL_MONITOR_STATE from a monitor that has
\* no owner while the other thread waits on it.
C11_Witness ==
  \E t \in MonThreads :
    /\ mpc[t] = "idle"
    /\ ret[t] = "M_ILLEGAL_MONITOR_STATE"
    /\ owner = NULL
    /\ wait_set # << >>
    /\ waiters = 1

\* The step is the return of thread t from raw_wait with the code ret'[t].
WaitReturns(t) == InsideWait(t) /\ mpc'[t] = "idle"

\* C12 (Interrupted wait): a raw_wait of the owner, with or without a
\* timeout, during which an interrupt of the thread was pending at the call
\* or was requested before its park() returned, returns M_INTERRUPTED, and at
\* the return the thread is the owner again.
C12_InterruptedWait ==
  [][ \A t \in MonThreads :
        (WaitReturns(t) /\ wait_call[t].intr) =>
           (ret'[t] = "M_INTERRUPTED" /\ owner' = t)
    ]_vars

\* Witness of C12: the JavaThread was interrupted while it was parked with a
\* timeout, has taken the monitor again and is about to return M_INTERRUPTED
\* with the recursions it had.
C12_Witness ==
  \E t \in MonThreads :
    /\ mpc[t] = "rw_check"
    /\ ~ external_suspend[t]
    /\ wait_call[t] = [rec |-> 1, intr |-> TRUE, millis |-> 1]
    /\ ret[t] = "M_INTERRUPTED"
    /\ ~ interrupted[t]
    /\ owner = t
    /\ recursions = 1

\* The thread is inside raw_wait between its _waiters++ and its _waiters--.
CountedAsWaiter(t) ==
  \/ mpc[t] \in {"wq_lock", "sw_after_exit", "sw_park", "sw_postcheck",
                 "dq_check", "dq_lock", "sw_reentered"}
  \/ cont[t] \in {"sw_after_exit", "sw_reentered"}

\* C13: every return of raw_wait with M_OK or M_INTERRUPTED, whatever ended
\* the wait, leaves the thread the owner with the _recursions it had at the
\* call and with its own increment of _waiters undone (_waiters counts the
\* waits of the other threads that are under way); and a thread that takes
\* the monitor while another thread is inside raw_wait finds _recursions = 0,
\* never the count the waiter has saved.
C13_WaitFrame ==
  [][ \A t \in MonThreads :
        /\ (WaitReturns(t) /\ ret'[t] \in {"M_OK", "M_INTERRUPTED"}) =>
              /\ owner' = t
              /\ recursions' = wait_call[t].rec
              /\ waiters' = Cardinality({u \in MonThreads \ {t} :
                                            CountedAsWaiter(u)})
        /\ (owner # t /\ owner' = t /\ \E u \in MonThreads \ {t} : InsideWait(u)) =>
              recursions' = 0
    ]_vars

(***************************************************************************)
(* The raw monitor during safepoints (SpecAgent, FairAgent)                *)
(***************************************************************************)

\* Thread b is parked on the entry list inside raw_enter.
ParkedInEnter(b) ==
  /\ mpc[b] = "se_park"
  /\ cont[b] = "re_after"
  /\ t_state[b] = "TS_ENTER"
  /\ ~ park_event[b]

\* Thread b is inside raw_enter and has not got the monitor yet.
Contending(b) ==
  /\ cont[b] = "re_after"
  /\ mpc[b] \in {"se_cas", "se_lock", "se_recheck", "se_park"}

\* Thread a has exited the monitor and does not enter it again.
ExitedForGood(a) ==
  /\ depth[a] = 0
  /\ jvmti[a] = [pc |-> "out", calls |-> MaxEnterCalls]

\* C14 (No deadlock between raw monitor and safepoint): when begin() has
\* taken the Threads_lock while worker a owns the monitor and worker b is
\* parked in raw_enter, the safepoint reaches _synchronized with a and b both
\* accounted safe; and once a has exited the monitor for good, a worker b
\* that contends in raw_enter becomes the owner, whether a safepoint is under
\* way or not.
C14_NoDeadlock ==
  \A a, b \in Workers :
    a # b =>
      /\ (owner = a /\ ParkedInEnter(b) /\ vmpc = "set_counts")
            ~> (state = "_synchronized" /\ safepoint_safe[a] /\ safepoint_safe[b])
      /\ (Contending(b) /\ ExitedForGood(a)) ~> (owner = b)

\* Witness of C14: the safepoint is synchronized while worker a, in native
\* code, owns the monitor and worker b is parked in raw_enter in the state
\* _thread_blocked; both were accounted safe.
C14_Witness ==
  \E a, b \in Workers :
    /\ a # b
    /\ state = "_synchronized"
    /\ owner = a
    /\ thread_state[a] = "_thread_in_native"
    /\ jvmti[a].pc = "out"
    /\ ParkedInEnter(b)
    /\ thread_state[b] = "_thread_blocked"
    /\ safepoint_safe[a] /\ safepoint_safe[b]

(***************************************************************************)
(* The poll words and the parity of the safepoint counter (Spec)           *)
(***************************************************************************)

Armed(t) == local_poll[t]

\* C15 as stated: in every reachable state a thread whose poll word is armed
\* finds _safepoint_counter odd.
C15_ArmedOddAsStated == \A t \in Workers : Armed(t) => CounterOdd

\* C15, amended: a poll word is armed only while _safepoint_counter is odd; an
\* armed poll word with an even counter exists only inside disarm_safepoint(),
\* between the store that makes the counter even and the restart loop's
\* visit of that thread, with _state == _not_synchronized and Threads_lock
\* still held by the VM thread.
C15_ArmedOdd ==
  /\ [](\A t \in Workers :
          (Armed(t) /\ ~ CounterOdd) =>
             /\ vmpc = "restart"
             /\ t \in todo
             /\ state = "_not_synchronized"
             /\ Threads_lock = "vm")
  /\ [][\A t \in Workers :
          (~ Armed(t) /\ Armed(t)') => (CounterOdd /\ UNCHANGED safepoint_counter)]_vars

\* Witness of C15: inside disarm_safepoint() the counter is even again, one
\* thread has been restarted and disarmed, the other is still armed.
C15_Witness ==
  \E t, u \in Workers :
    /\ vmpc = "restart"
    /\ ~ CounterOdd
    /\ safepoint_counter > 0
    /\ Armed(t) /\ t \in todo
    /\ ~ Armed(u) /\ u \in registered \ todo

(***************************************************************************)
(* The safepoint timeout (SpecTimeout)                                     *)
(***************************************************************************)

NonFatalTimeout == SafepointTimeout /\ ~ AbortVMOnSafepointTimeout

\* No two reports carry the same safepoint id.
OncePerSafepoint ==
  \A i, j \in DOMAIN timeout_reports :
    timeout_reports[i].id = timeout_reports[j].id => i = j

\* The step that ends an iteration of synchronize_threads() with threads
\* still running.
IterationEndsRunning ==
  /\ vmpc = "ex_state"
  /\ todo = {}
  /\ still_running > 0
  /\ vmlocals' # vmlocals

\* C16: with SafepointTimeout set and AbortVMOnSafepointTimeout clear, an
\* iteration that ends after the limit has passed with threads still running
\* logs those threads if no report was logged for this safepoint and logs
\* nothing otherwise, and the loop goes on in _synchronizing; there is at
\* most one report per safepoint, the VM thread never reaches fatal(), and
\* _state is _synchronized only when every thread was accounted safe.
C16_TimeoutNonFatal ==
  /\ [](NonFatalTimeout =>
          /\ OncePerSafepoint
          /\ vmpc # "fatal"
          /\ state = "_synchronized" =>
               \A t \in registered : safepoint_safe[t])
  /\ [][(NonFatalTimeout /\ limit_passed /\ IterationEndsRunning) =>
          /\ vmpc' = "ex_state"
          /\ todo' # {}
          /\ state' = "_synchronizing"
          /\ timeout_error_printed'
          /\ timeout_reports' =
               IF timeout_error_printed
                 THEN timeout_reports
                 ELSE Append(timeout_reports,
                             [id |-> safepoint_counter,
                              threads |-> {t \in registered :
                                             ~ safepoint_safe[t]}])
          /\ {t \in registered : ~ safepoint_safe[t]} # {}]_vars

\* Witness of C16: the second safepoint is synchronized after its limit had
\* passed; each of the two safepoints logged one report, the second one
\* naming both threads.
C16_Witness ==
  /\ NonFatalTimeout
  /\ state = "_synchronized"
  /\ safepoint_counter = 3
  /\ limit_passed
  /\ Len(timeout_reports) = 2
  /\ timeout_reports[1].id = 1
  /\ timeout_reports[2] = [id |-> 3, threads |-> Workers]

(***************************************************************************)
(* Threads that exit during begin() (SpecExit, FairExit)                   *)
(***************************************************************************)

\* The thread is inside its exit and not yet terminated.
Exiting(t) == wpc[t] \in {"exit_lock", "exit_wait", "exit_remove"}

\* The VM thread is in synchronize_threads() and has not accounted t safe.
WaitedFor(t) ==
  /\ state = "_synchronizing"
  /\ t \in registered
  /\ ~ safepoint_safe[t]

\* The step in which examine_state_of_thread() accounts t safe.
AccountedSafe(t) == ~ safepoint_safe[t] /\ safepoint_safe'[t]

FirstRecorded == vmpc = "cleanup" /\ safepoint_counter = 1

\* C19 as stated: the first safepoint records initial_running == 1.
C19_InitialRunningAsStated == FirstRecorded => initial_running = 1

\* C19, amended: with one thread, in Java code when begin() starts, and
\* _safepoint_counter 0: the counter only grows by one, from 0 to 1 in
\* begin() and from 1 to 2 in end(); _waiting_to_block is set to 1 and then
\* decremented to 0, when the thread is accounted safe, before _synchronized;
\* the thread is back in Java code after end(); and the recorded
\* initial_running is 1 when the first iteration found the thread running
\* and 0 when the thread had already blocked by then.
C19_SingleJavaWorker ==
  /\ [][safepoint_counter' # safepoint_counter =>
          safepoint_counter' = safepoint_counter + 1]_vars
  /\ [](waiting_to_block \in {0, 1})
  /\ [][waiting_to_block' # waiting_to_block =>
          IF waiting_to_block = 0
            THEN vmpc = "set_counts"
            ELSE vmpc = "ex_classify" /\ safepoint_safe'[TheWorker]]_vars
  /\ [][(first_pass /\ ~ first_pass') =>
          initial_running' = IF safepoint_safe[TheWorker] THEN 0 ELSE 1]_vars
  /\ [](FirstRecorded => initial_running \in {0, 1})
  /\ (safepoint_counter = 0 /\ vmpc = "set_counts")
        ~> (safepoint_counter = 1 /\ waiting_to_block = 1)
  /\ (safepoint_counter = 1 /\ waiting_to_block = 1)
        ~> (safepoint_counter = 1 /\ waiting_to_block = 0
              /\ state = "_synchronized")
  /\ (safepoint_counter = 1 /\ state = "_synchronized")
        ~> (safepoint_counter = 2 /\ state = "_not_synchronized")
  /\ (safepoint_counter = 1 /\ state = "_synchronized")
        ~> (/\ safepoint_counter >= 2
            /\ wpc[TheWorker] = "java"
            /\ thread_state[TheWorker] = "_thread_in_Java")

\* Witness of C19: the first safepoint is synchronized; the first iteration
\* found the thread running, which then polled and blocked on the barrier.
C19_Witness ==
  /\ FirstRecorded
  /\ registered = {TheWorker}
  /\ initial_running = 1
  /\ waiting_to_block = 0
  /\ wpc[TheWorker] = "blk_wait"
  /\ thread_state[TheWorker] = "_thread_blocked"

(***************************************************************************)
(* One thread in a native method (SpecNative, FairNative)                  *)
(***************************************************************************)

\* The thread is in the native method it was in from the start.
InNative(t) ==
  /\ wpc[t] = "native"
  /\ thread_state[t] = "_thread_in_native"
  /\ walkable[t]

\* The step that ends the first iteration of synchronize_threads().
FirstIterationEnds == first_pass /\ ~ first_pass'

C21_ValidIffLive ==
  validated # NoValidation => (validated.result <=> validated.live)

(***************************************************************************)
(* C22  Release of the parked threads                                      *)
(***************************************************************************)

\* The thread is inside _wait_barrier->wait() in block().
Parked(t) == wpc[t] = "blk_wait"

\* The thread has returned from block().
Returned(t) ==
  /\ wpc[t] \in {"java", "trans_done"}
  /\ safepoint_id[t] = InactiveSafepointCounter

\* The step in which block() returns.
ReturnsFromBlock(t) == wpc[t] = "blk_reset_id" /\ wpc'[t] # "blk_reset_id"

\* C22: every thread that waits on the barrier, whether it began to wait
\* before disarm_safepoint() or while it ran, eventually returns from
\* block(), and it returns in the thread state it had when it called block().
C22_Release ==
  /\ \A t \in Workers : Parked(t) ~> Returned(t)
  /\ [][\A t \in Workers :
          ReturnsFromBlock(t) => thread_state'[t] = blk_state[t]]_vars

\* A thread that waited for the tag of the current safepoint has been
\* released by the disarm at the end of it, and another one is still on its
\* way into the wait.
C22_Witness ==
  \E t, u \in Workers :
    /\ wpc[t] = "blk_woken"
    /\ blk_id[t] % 2 = 1
    /\ blk_id[t] = safepoint_counter - 1
    /\ wait_barrier = 0
    /\ wpc[u] = "blk_set_blocked"
    /\ blk_id[u] = blk_id[t]

(***************************************************************************)
(* C23  The order of the steps of disarm_safepoint()                       *)
(***************************************************************************)

\* Every thread on the list has been restarted and its poll is disarmed.
AllRestarted ==
  \A u \in registered : ~ safepoint_safe[u] /\ ~ local_poll[u]

\* The step in which _wait_barrier->wait() returns in block().
ReturnsFromWait(t) == wpc[t] = "blk_wait" /\ wpc'[t] = "blk_woken"

\* The order of the stores of disarm_safepoint(): _state is
\* _not_synchronized when the counter becomes even, the counter is even when
\* a thread is restarted or its poll disarmed, every thread has been
\* restarted when Threads_lock is released, and Threads_lock has been
\* released when the barrier is disarmed.
EndOrder ==
  /\ (safepoint_counter % 2 = 1 /\ safepoint_counter' # safepoint_counter)
       => state = "_not_synchronized"
  /\ \A t \in Workers :
       \/ (safepoint_safe[t] /\ ~ safepoint_safe'[t])
       \/ (local_poll[t] /\ ~ local_poll'[t])
       => safepoint_counter % 2 = 0 /\ state = "_not_synchronized"
  /\ (Threads_lock = "vm" /\ Threads_lock' # "vm")
       => AllRestarted /\ safepoint_counter % 2 = 0
  /\ (wait_barrier # 0 /\ wait_barrier' = 0)
       => Threads_lock # "vm" /\ AllRestarted

\* C23 as stated: the stores of end are ordered, and no thread returns from
\* the barrier wait while _state is _synchronized or while the loop that
\* restarts the threads has not finished.
C23_EndOrderAsStated ==
  [][/\ EndOrder
     /\ \A t \in Workers :
          ReturnsFromWait(t) =>
            /\ state # "_synchronized"
            /\ ~ (vmpc \in {"end_counter", "restart"} /\ ~ AllRestarted)]_vars

\* C23 (amended): the stores of end are ordered, no thread returns from the
\* barrier wait while _state is _synchronized, and a thread that waits with
\* the id of the safepoint that is ending (an odd id) returns only after the
\* barrier was disarmed, when every thread has been restarted.
C23_EndOrder ==
  [][/\ EndOrder
     /\ \A t \in Workers :
          ReturnsFromWait(t) =>
            /\ state # "_synchronized"
            /\ (blk_id[t] % 2 = 1 /\ safepoint_counter <= blk_id[t] + 1) =>
                 /\ safepoint_counter = blk_id[t] + 1
                 /\ vmpc \notin {"end_counter", "restart", "disarm"}
                 /\ AllRestarted]_vars

\* A thread that waited with the id of the safepoint has returned from the
\* wait after the disarm, before the VM thread does anything else.
C23_Witness ==
  \E t \in Workers :
    /\ wpc[t] = "blk_woken"
    /\ blk_id[t] % 2 = 1
    /\ safepoint_counter = blk_id[t] + 1
    /\ vmpc = "idle"
    /\ wait_barrier = 0
    /\ Threads_lock = "free"

(***************************************************************************)
(* C24  The order of the steps of begin()                                  *)
(***************************************************************************)

\* The order of the stores of begin() and arm_safepoint(): the two counts are
\* set when the barrier is armed; the barrier is disarmed when it is armed,
\* and it is armed with the even counter plus one; the barrier holds that tag
\* when the counter becomes odd; the counter is odd when _state becomes
\* _synchronizing and when a poll is armed; the cleanup starts in the state
\* _synchronized.
BeginOrder ==
  /\ wait_barrier' # wait_barrier /\ wait_barrier' # 0
       => /\ wait_barrier = 0
          /\ safepoint_counter % 2 = 0
          /\ wait_barrier' = safepoint_counter + 1
          /\ waiting_to_block = Cardinality(registered)
          /\ waiting_to_block = nof_threads
          /\ current_jni_active_count = 0
  /\ (safepoint_counter % 2 = 0 /\ safepoint_counter' # safepoint_counter)
       => /\ wait_barrier = safepoint_counter'
          /\ state = "_not_synchronized"
          /\ \A t \in Workers : ~ local_poll[t]
  /\ (state # "_synchronizing" /\ state' = "_synchronizing")
       => safepoint_counter % 2 = 1 /\ \A t \in Workers : ~ local_poll[t]
  /\ \A t \in Workers :
       (~ local_poll[t] /\ local_poll'[t])
       => safepoint_counter % 2 = 1 /\ state = "_synchronizing"
  /\ (vmpc = "cleanup" /\ vmpc' # "cleanup") => state = "_synchronized"

\* C24: every step of a run keeps the order of begin().
C24_BeginOrder == [][BeginOrder]_vars

\* begin() has run to the end of the cleanup: the barrier holds the odd
\* counter, a poll is armed and the state is _synchronized.
C24_Witness ==
  /\ vmpc = "end"
  /\ state = "_synchronized"
  /\ safepoint_counter % 2 = 1
  /\ wait_barrier = safepoint_counter
  /\ \E t \in registered : local_poll[t]
  /\ waiting_to_block = 0

(***************************************************************************)
(* C25  The discipline of block()                                          *)
(***************************************************************************)

\* The thread is in block() between set_safepoint_id() and
\* reset_safepoint_id().
IdIsSet(t) ==
  wpc[t] \in {"blk_set_blocked", "blk_wait", "blk_woken", "blk_reset_id"}

\* The steps of block() in order: the id stored is the counter block() read;
\* it is stored when the state becomes _thread_blocked; the state is the
\* one block() was called in when the id is reset; at the return the id is
\* inactive and the state is the one block() was called in.
BlockOrder(t) ==
  /\ (safepoint_id'[t] # safepoint_id[t] /\ safepoint_id'[t] # InactiveSafepointCounter)
       => /\ wpc[t] = "blk_set_id"
          /\ safepoint_id'[t] = blk_id[t]
          /\ thread_state[t] = blk_state[t]
  /\ (wpc[t] = "blk_set_blocked" /\ wpc'[t] # wpc[t])
       => /\ thread_state'[t] = "_thread_blocked"
          /\ safepoint_id[t] = blk_id[t]
  /\ (safepoint_id[t] # InactiveSafepointCounter /\ safepoint_id'[t] # safepoint_id[t])
       => /\ safepoint_id'[t] = InactiveSafepointCounter
          /\ thread_state[t] = blk_state[t]
  /\ ReturnsFromBlock(t)
       => /\ safepoint_id'[t] = InactiveSafepointCounter
          /\ thread_state'[t] = blk_state[t]

\* C25: _safepoint_id is set only inside block(), and every step keeps the
\* order of block().
C25_BlockDiscipline ==
  /\ [](\A t \in Workers :
          safepoint_id[t] # InactiveSafepointCounter => IdIsSet(t))
  /\ [][\A t \in Workers : BlockOrder(t)]_vars

\* A thread that called block() in a transition has been woken and has
\* restored its state; its id is still the odd counter it read.
C25_Witness ==
  \E t \in Workers :
    /\ wpc[t] = "blk_reset_id"
    /\ safepoint_id[t] % 2 = 1
    /\ blk_state[t] = "_thread_in_native_trans"
    /\ thread_state[t] = "_thread_in_native_trans"

(***************************************************************************)
(* C26  block() with an even counter                                       *)
(***************************************************************************)

\* The thread is in block() and the counter it read is even.
StalePoll(t) ==
  /\ wpc[t] \in {"blk_set_id", "blk_set_blocked", "blk_wait", "blk_woken",
                  "blk_reset_id"}
  /\ blk_id[t] % 2 = 0

\* C26 as stated: a thread that read an even counter in block() returns
\* without storing the id, without the state _thread_blocked and without
\* calling the barrier wait.
C26_StaleReturnsAsStated ==
  \A t \in Workers :
    StalePoll(t) =>
      /\ safepoint_id[t] = InactiveSafepointCounter
      /\ thread_state[t] # "_thread_blocked"
      /\ wpc[t] # "blk_wait"

\* C26 (amended): a thread that read an even counter in block() stores it
\* as its id, sets its state to _thread_blocked and calls the barrier wait
\* as for an odd counter; the barrier never holds an even tag, so the wait
\* can return at once.
C26_StalePoll ==
  \A t \in Workers :
    StalePoll(t) =>
      /\ IdIsSet(t) => safepoint_id[t] = blk_id[t]
      /\ wpc[t] \in {"blk_wait", "blk_woken"} =>
           thread_state[t] = "_thread_blocked"
      /\ wpc[t] = "blk_wait" =>
           WaitBarrier_may_return(static_cast_int(blk_id[t]))

\* A thread that read the even counter is blocked in the barrier wait while
\* the barrier is still armed.
C26_Witness ==
  \E t \in Workers :
    /\ wpc[t] = "blk_wait"
    /\ blk_id[t] % 2 = 0
    /\ safepoint_id[t] = blk_id[t]
    /\ thread_state[t] = "_thread_blocked"
    /\ wait_barrier # 0

(***************************************************************************)
(* C27  assert(_state != _synchronized) after the barrier wait             *)
(***************************************************************************)

\* The thread has returned from _wait_barrier->wait() and has not yet
\* restored its thread state: the place of the assertion in block().
AtAssert(t) == wpc[t] = "blk_woken"

\* C27: wherever a thread stands between the return of the barrier wait and
\* the store that restores its state, _state is not _synchronized, whatever
\* counter the thread read and however far the VM thread has got since.
C27_AssertHolds ==
  \A t \in Workers : AtAssert(t) => state # "_synchronized"

\* A thread is at the assertion with the id of an earlier safepoint while
\* the VM thread is synchronizing the next one and has armed the thread's
\* poll again.
C27_Witness ==
  \E t \in Workers :
    /\ AtAssert(t)
    /\ state = "_synchronizing"
    /\ safepoint_counter > blk_id[t] + 1
    /\ local_poll[t]
    /\ t \in registered

(***************************************************************************)
(* C28  An unstable read in examine_state_of_thread()                      *)
(***************************************************************************)

\* try_stable_load_state() is about to return false: the id it reads is
\* neither inactive nor the counter, or the second read of the thread state
\* differs from the first.
UnstableRead ==
  \/ /\ vmpc = "ex_id"
     /\ safepoint_id[cur_thread] \notin {InactiveSafepointCounter, safepoint_counter}
  \/ /\ vmpc = "ex_reload"
     /\ ld_state # thread_state[cur_thread]

\* The VM thread examines the thread.
Examined(t) == vmpc = "ex_state" /\ todo # {} /\ cur_thread = t

\* C28: a step from an unstable read changes neither _waiting_to_block nor
\* a thread's _safepoint_safe nor _current_jni_active_count, and when
\* examine_state_of_thread() returns the thread is on the list of the
\* running threads; a thread on that list is examined again.
C28_UnstableExamine ==
  /\ [][UnstableRead =>
          /\ waiting_to_block' = waiting_to_block
          /\ safepoint_safe' = safepoint_safe
          /\ current_jni_active_count' = current_jni_active_count
          /\ vmpc' # vmpc =>
               /\ vmpc' = "ex_state"
               /\ cur_thread \in tss'
               /\ still_running' = still_running]_vars
  /\ \A t \in Workers : (t \in tss) ~> Examined(t)

\* The VM thread found a blocked thread with the id of the previous
\* safepoint, on the back edge of block(), and left it on the list of the
\* running threads.
C28_Witness ==
  \E t \in Workers :
    /\ t \in tss
    /\ state = "_synchronizing"
    /\ thread_state[t] = "_thread_blocked"
    /\ safepoint_id[t] \notin {InactiveSafepointCounter, safepoint_counter}
    /\ safepoint_id[t] % 2 = 1
    /\ ~ safepoint_safe[t]
    /\ waiting_to_block > 0

(***************************************************************************)
(* C29  The classification of examine_state_of_thread()                    *)
(***************************************************************************)

\* examine_state_of_thread() has a stable state of the thread and is about
\* to classify it.
Classifies(t) ==
  /\ vmpc = "ex_classify"
  /\ vmpc' # vmpc
  /\ cur_thread = t

\* The threads the claim calls safe, by the state that was read.
SafeByState(t) ==
  \/ is_ext_suspended[t]
  \/ ld_state = "_thread_blocked"
  \/ ld_state = "_thread_in_native" /\ walkable[t]

\* C29: a thread is accounted safe only by the classification of a stable
\* read, and that accounts it safe exactly when it is suspended, blocked, or
\* in a native method with a walkable stack; a thread in any other state
\* stays on the list of the running threads.
C29_Classification ==
  [][\A t \in Workers :
       /\ AccountedSafe(t) => Classifies(t)
       /\ Classifies(t) =>
            /\ AccountedSafe(t) <=> SafeByState(t)
            /\ ~ SafeByState(t) => t \in tss' /\ waiting_to_block' = waiting_to_block
            /\ SafeByState(t) => t \notin tss']_vars

\* The VM thread has just left a thread in a native method without a
\* walkable stack on the list of the running threads, and has accounted
\* another one safe.
C29_Witness ==
  \E t, u \in Workers :
    /\ state = "_synchronizing"
    /\ t \in tss
    /\ thread_state[t] = "_thread_in_native"
    /\ ~ walkable[t]
    /\ ~ safepoint_safe[t]
    /\ safepoint_safe[u]

(***************************************************************************)
(* C30  The accounting of _waiting_to_block                                *)
(***************************************************************************)

\* The VM thread is between the store _waiting_to_block = nof_threads in
\* begin() and the first store of end().
InAccounting ==
  vmpc \in {"arm_barrier", "store_counter", "set_synchronizing", "arm_polls",
            "ex_state", "ex_id", "ex_reload", "ex_classify",
            "set_synchronized", "cleanup", "cleanup_run", "end"}

\* C30: between that store and end(), _waiting_to_block is the number of
\* threads on the list that are not accounted safe; it is never negative;
\* it changes there only by one, together with one thread's _safepoint_safe
\* becoming true, and a thread accounted safe stays so until the restart
\* loop of end(), so no thread is accounted twice in a safepoint; when
\* begin() starts no thread is accounted safe.
C30_Accounting ==
  /\ [](/\ waiting_to_block >= 0
        /\ InAccounting =>
             waiting_to_block = Cardinality(running_threads))
  /\ [][/\ (InAccounting /\ waiting_to_block' # waiting_to_block) =>
             /\ waiting_to_block' = waiting_to_block - 1
             /\ Cardinality({t \in Workers : AccountedSafe(t)}) = 1
        /\ \A t \in Workers :
             /\ AccountedSafe(t) => InAccounting /\ t \in registered
             /\ (safepoint_safe[t] /\ ~ safepoint_safe'[t]) => vmpc = "restart"
        /\ (vmpc = "idle" /\ vmpc' # "idle") =>
             \A t \in Workers : ~ safepoint_safe[t]]_vars

\* In the second safepoint one of two threads has been accounted safe and
\* the other has not.
C30_Witness ==
  /\ state = "_synchronizing"
  /\ safepoint_counter = 3
  /\ Cardinality(registered) = 2
  /\ waiting_to_block = 1
  /\ \E t \in registered : safepoint_safe[t]
  /\ \E t \in registered : ~ safepoint_safe[t]

(***************************************************************************)
(* block() from every thread state its switch accepts, with pending        *)
(* special runtime exit conditions.  One Java thread runs; it starts in    *)
(* Java code or on a transition edge.                                      *)
(***************************************************************************)

\* The thread states block() accepts (lines 798-802).
BlockOrigins == {"_thread_in_vm_trans", "_thread_in_Java",
                 "_thread_in_native_trans", "_thread_blocked_trans",
                 "_thread_new_trans"}

\* Another thread posts a suspend request or an asynchronous exception.
PostSpecial(t, c) ==
  /\ wpc[t] # "terminated"
  /\ c \notin special_condition[t]
  /\ special_condition' = [special_condition EXCEPT ![t] = @ \cup {c}]
  /\ UNCHANGED <<special_handled, safepointvars, rmvars, handlevars, hs,
                 arming>>

BlockExitInit ==
  \E origin \in BlockOrigins, c \in SUBSET SpecialConditions :
    /\ OneWorkerInit(origin, origin # "_thread_in_Java",
                     IF origin = "_thread_in_Java" THEN "java" ELSE "trans")
    /\ special_condition = [t \in Workers |-> IF t = TheWorker THEN c ELSE {}]
    /\ special_handled = [t \in Workers |-> NotHandled]
    /\ arming = NotArming

NextBlockExit ==
  \/ VMNext \/ VM_DoCleanup
  \/ WorkerNext(TheWorker)
  \/ Block_Special(TheWorker)
  \/ \E c \in SpecialConditions : PostSpecial(TheWorker, c)

SpecBlockExit == BlockExitInit /\ [][NextBlockExit]_vars

(***************************************************************************)
(* raw_notify and raw_notifyAll with two waiting threads.  None of the     *)
(* three threads is a JavaThread: threads 1 and 2 enter, wait and exit,    *)
(* thread 3 enters, notifies and exits.                                    *)
(***************************************************************************)

\* The thread that calls raw_notify and raw_notifyAll.
Notifier == NumMonThreads

\* The threads that call raw_wait.
Waiters == MonThreads \ {Notifier}

\* The steps inside raw_enter and raw_exit of a thread that is not a
\* JavaThread, and its calls of raw_exit.
PlainEnterExit(t) ==
  \/ RE_After(t)
  \/ SE_CAS(t) \/ SE_Lock(t) \/ SE_Recheck(t) \/ SE_Park(t)
  \/ RawExit(t) \/ RX_Return(t)
  \/ SX_Release(t) \/ SX_Read(t) \/ SX_Lock(t) \/ SX_SetRun(t) \/ SX_Unpark(t)

\* raw_wait of a thread that is not a JavaThread.
PlainWait(t) ==
  \/ (\E m \in MillisValues : RawWait(t, m))
  \/ WQ_Lock(t) \/ SW_AfterExit(t) \/ SW_Park(t)
  \/ DQ_Check(t) \/ DQ_Lock(t) \/ SW_Reentered(t)

NotifyCalls(t) ==
  \/ (\E a \in BOOLEAN : RawNotify(t, a))
  \/ SN_Lock(t) \/ SN_Loop(t) \/ SN_Unpark(t)

NotifyInit == SafepointInit /\ TimeoutOff /\ CleanupInit /\ MonitorStart({})

\* The waiting threads do not enter the monitor recursively.
NotifyNext ==
  \/ \E t \in Waiters :
       \/ depth[t] = 0 /\ RawEnter(t)
       \/ PlainEnterExit(t) \/ PlainWait(t)
  \/ RawEnter(Notifier) \/ PlainEnterExit(Notifier) \/ NotifyCalls(Notifier)

SpecNotify == NotifyInit /\ [][NotifyNext]_vars

(***************************************************************************)
(* Contention of threads that are not JavaThreads, with fairness.          *)
(***************************************************************************)

\* The steps of a thread inside raw_enter and raw_exit.
EnterExitProgress(t) ==
  \/ RE_After(t)
  \/ SE_CAS(t) \/ SE_Lock(t) \/ SE_Recheck(t) \/ SE_Park(t)
  \/ RX_Return(t)
  \/ SX_Release(t) \/ SX_Read(t) \/ SX_Lock(t) \/ SX_SetRun(t) \/ SX_Unpark(t)

\* No thread enters the monitor recursively.
PlainNext ==
  \E t \in MonThreads : (depth[t] = 0 /\ RawEnter(t)) \/ PlainEnterExit(t)

SpecPlain == NotifyInit /\ [][PlainNext]_vars

\* Fairness: a thread inside a call keeps running.  Nothing forces a thread
\* to call raw_enter or raw_exit.
FairPlain ==
  /\ NotifyInit /\ [][PlainNext]_vars
  /\ \A t \in MonThreads : WF_vars(EnterExitProgress(t))

(***************************************************************************)
(* One thread that waits and one that notifies, with fairness.  Neither    *)
(* is a JavaThread and neither enters the monitor recursively.             *)
(***************************************************************************)

\* The thread that calls raw_wait: the first of the monitor's threads.
TheWaiter == NextThread(MonThreads)

\* The steps of a thread inside raw_wait.
WaitProgress(t) ==
  \/ WQ_Lock(t) \/ SW_AfterExit(t) \/ SW_Park(t)
  \/ DQ_Check(t) \/ DQ_Lock(t) \/ SW_Reentered(t)

\* The steps of a thread inside raw_notify and raw_notifyAll.
NotifyProgress(t) == SN_Lock(t) \/ SN_Loop(t) \/ SN_Unpark(t)

WaitNext ==
  \/ \E t \in {TheWaiter, Notifier} :
       (depth[t] = 0 /\ RawEnter(t)) \/ PlainEnterExit(t)
  \/ PlainWait(TheWaiter)
  \/ NotifyCalls(Notifier)

SpecWait == NotifyInit /\ [][WaitNext]_vars

\* Fairness: a thread inside a call keeps running.  Nothing forces a thread
\* to call the monitor.
FairWait ==
  /\ NotifyInit /\ [][WaitNext]_vars
  /\ \A t \in {TheWaiter, Notifier} : WF_vars(EnterExitProgress(t))
  /\ WF_vars(WaitProgress(TheWaiter))
  /\ WF_vars(NotifyProgress(Notifier))

(***************************************************************************)
(* The safepoint counter at its full width.  _safepoint_counter is a       *)
(* uint64_t; it is kept as four pieces of 16 bits, the lowest first.  The  *)
(* counter starts at an even value next to a carry into a higher piece,    *)
(* next to the sign bit of an int or next to the end of 32 or 64 bits, and *)
(* safepoints follow one another; one thread blocks in each.               *)
(***************************************************************************)

\* Number of safepoints that follow one another.
MaxTagSafepoints == 3

\* x + 1 on uint64_t: the carry runs from piece i upwards and is dropped
\* after the highest piece.
RECURSIVE IncFrom(_, _)
IncFrom(c, i) ==
  IF i > Len(c) THEN c
  ELSE IF c[i] = LimbBase - 1 THEN IncFrom([c EXCEPT ![i] = 0], i + 1)
       ELSE [c EXCEPT ![i] = @ + 1]

uint64_plus_one(c) == IncFrom(c, 1)

\* static_cast<int>(x) of a uint64_t x: the low 32 bits, read as a two's
\* complement int.
static_cast_int_of_uint64(c) ==
  IF c[2] >= LimbBase \div 2 THEN (c[2] - LimbBase) * LimbBase + c[1]
                             ELSE c[2] * LimbBase + c[1]

\* (x & 0x1) == 0
is_even(c) == c[1] % 2 = 0

\* The low and the high 32 bits of the counters the runs start from.
LowStarts == {<<0, 0>>, <<LimbBase - 2, 0>>,
              <<LimbBase - 2, LimbBase \div 2 - 1>>,
              <<LimbBase - 4, LimbBase - 1>>,
              <<LimbBase - 2, LimbBase - 1>>}

HighStarts == {<<0, 0>>, <<LimbBase - 1, 0>>, <<LimbBase - 1, LimbBase - 1>>}

\* Faulty variant: the barrier is armed with the tag of the counter as it is.
Tag_Arm_current ==
  /\ arming.pc = "idle"
  /\ arming.runs < MaxTagSafepoints
  /\ arming' = [arming EXCEPT
                  !.barrier = static_cast_int_of_uint64(arming.counter),
                  !.pc = "armed"]
  /\ UNCHANGED <<safepointvars, rmvars, handlevars, hs, exitvars>>

\* arm_safepoint(), line 318:
\* _wait_barrier->arm(static_cast<int>(_safepoint_counter + 1)).
Tag_Arm ==
  /\ arming.pc = "idle"
  /\ arming.runs < MaxTagSafepoints
  /\ arming' = [arming EXCEPT
                  !.barrier =
                    static_cast_int_of_uint64(uint64_plus_one(arming.counter)),
                  !.pc = "armed"]
  /\ UNCHANGED <<safepointvars, rmvars, handlevars, hs, exitvars>>

\* arm_safepoint(), lines 320-322: the counter is even and becomes odd.
Tag_StoreOdd ==
  /\ arming.pc = "armed"
  /\ is_even(arming.counter)
  /\ arming' = [arming EXCEPT !.counter = uint64_plus_one(arming.counter),
                              !.pc = "odd"]
  /\ UNCHANGED <<safepointvars, rmvars, handlevars, hs, exitvars>>

\* block(), lines 796 and 816: safepoint_id = safepoint_counter();
\* _wait_barrier->wait(static_cast<int>(safepoint_id)).
Tag_Block ==
  /\ arming.pc = "odd"
  /\ arming' = [arming EXCEPT
                  !.worker_tag = static_cast_int_of_uint64(arming.counter),
                  !.pc = "waiting"]
  /\ UNCHANGED <<safepointvars, rmvars, handlevars, hs, exitvars>>

\* disarm_safepoint(), lines 472-473: the counter is odd and becomes even.
Tag_StoreEven ==
  /\ arming.pc = "waiting"
  /\ ~ is_even(arming.counter)
  /\ arming' = [arming EXCEPT !.counter = uint64_plus_one(arming.counter),
                              !.pc = "even"]
  /\ UNCHANGED <<safepointvars, rmvars, handlevars, hs, exitvars>>

\* disarm_safepoint(), line 494: _wait_barrier->disarm().  The tag of the
\* safepoint is remembered for the next one.
Tag_Disarm ==
  /\ arming.pc = "even"
  /\ arming' = [arming EXCEPT !.prev_tag = arming.barrier,
                              !.barrier = 0,
                              !.worker_tag = 0,
                              !.pc = "idle",
                              !.runs = @ + 1]
  /\ UNCHANGED <<safepointvars, rmvars, handlevars, hs, exitvars>>

TagInit ==
  /\ OneWorkerInit("_thread_in_Java", FALSE, "java")
  /\ NoSpecial
  /\ \E lo \in LowStarts, hi \in HighStarts :
       arming = [NotArming EXCEPT !.counter = lo \o hi, !.pc = "idle"]

TagNext ==
  Tag_Arm \/ Tag_StoreOdd \/ Tag_Block \/ Tag_StoreEven \/ Tag_Disarm

SpecTag == TagInit /\ [][TagNext]_vars

(***************************************************************************)
(* C31  handshake_safe                                                     *)
(***************************************************************************)

\* The VM thread takes a step inside handshake_safe().
InHandshakeSafe ==
  /\ vmpc \in {"hs_check", "hs_state", "hs_id", "hs_reload"}
  /\ vmpc' # vmpc

\* handshake_safe() returns r.
HandshakeReturns(r) == InHandshakeSafe /\ hs.result = "none" /\ hs'.result = r

\* C31: handshake_safe() returns true only for a suspended or terminated
\* thread or after two equal reads of the thread state around a read of an
\* inactive id, the state being _thread_blocked or _thread_in_native with
\* a walkable stack; it returns false when the id it reads is not
\* inactive and when the second read of the state differs; and its steps
\* change nothing but its own locals.
C31_HandshakeSafe ==
  [][/\ HandshakeReturns("true") =>
          /\ safepoint_id[hs.thread] = InactiveSafepointCounter
          /\ \/ /\ vmpc = "hs_check"
                /\ is_ext_suspended[hs.thread] \/ is_terminated(hs.thread)
             \/ /\ vmpc = "hs_reload"
                /\ hs.sid = InactiveSafepointCounter
                /\ ld_state = thread_state[hs.thread]
                /\ \/ ld_state = "_thread_blocked"
                   \/ ld_state = "_thread_in_native" /\ walkable[hs.thread]
     /\ (InHandshakeSafe /\ vmpc = "hs_id"
           /\ safepoint_id[hs.thread] # InactiveSafepointCounter)
          => hs'.result = "false"
     /\ (InHandshakeSafe /\ vmpc = "hs_reload"
           /\ ld_state # thread_state[hs.thread])
          => hs'.result = "false"
     /\ InHandshakeSafe =>
          UNCHANGED <<spglobals, perthread, nof_threads, todo, tss,
                      still_running, first_pass, initial_running,
                      cleanupvars, rmvars, handlevars, timeoutvars,
                      exitvars, arming>>]_vars

\* handshake_safe() has returned false for a blocked thread that is still
\* in block() with the id of the last safepoint.
C31_Witness ==
  /\ vmpc = "hs_done"
  /\ hs.result = "false"
  /\ hs.sid # InactiveSafepointCounter
  /\ thread_state[hs.thread] = "_thread_blocked"
  /\ ld_state = "_thread_blocked"

(***************************************************************************)
(* C32  asynchronous exceptions at the end of block()                      *)
(***************************************************************************)

\* The thread states of a transition out of a native call, out of a
\* blocking call or out of a call into the VM.
CallTransitions == {"_thread_in_native_trans", "_thread_blocked_trans",
                    "_thread_in_vm_trans"}

\* Thread t takes its pending asynchronous exception.
TakesAsync(t) ==
  "async" \in special_condition[t] /\ "async" \notin special_condition'[t]

\* C32: a thread takes a pending asynchronous exception at the end of
\* block() only if it did not enter block() on a transition out of a
\* native, blocking or VM call; block() entered on such a transition
\* returns with the exception still pending.
C32_AsyncDelivery ==
  [][\A t \in Workers :
       /\ TakesAsync(t) =>
            wpc[t] = "blk_special" /\ blk_state[t] \notin CallTransitions
       /\ (/\ wpc[t] \in {"blk_reset_id", "blk_special"}
           /\ wpc'[t] \notin {"blk_reset_id", "blk_special"}
           /\ blk_state[t] \in CallTransitions)
            => /\ "async" \in special_condition[t]
                    => "async" \in special_condition'[t]
               /\ wpc[t] = "blk_special"
                    => special_handled'[t].check_asyncs = FALSE]_vars

\* block() entered on the way back from a native call has called the
\* handler, and the asynchronous exception is still pending.
C32_Witness ==
  LET t == TheWorker
  IN  /\ special_handled[t] = [origin |-> "_thread_in_native_trans",
                               check_asyncs |-> FALSE]
      /\ "async" \in special_condition[t]
      /\ wpc[t] = "trans_done"

(***************************************************************************)
(* C33  RawMonitor_lock is not held across a park                          *)
(***************************************************************************)

\* The positions inside a fragment that runs under RawMonitor_lock: the
\* recheck of simple_enter and the loop of simple_notify.
UnderRawMonitorLock == {"se_recheck", "sn_loop"}

\* The positions of a thread inside park().
InPark == {"se_park", "sw_park"}

\* C33: a thread that holds RawMonitor_lock is inside an enqueue or dequeue
\* fragment, so no thread inside park() holds it, and a thread that leaves
\* a fragment has released it.
C33_LockNotParked ==
  \A t \in MonThreads :
    /\ RawMonitor_lock = t => mpc[t] \in UnderRawMonitorLock
    /\ mpc[t] \in InPark => RawMonitor_lock # t

\* A thread has found the monitor owned in simple_enter; it is inside
\* park() and another thread holds RawMonitor_lock.
C33_Witness ==
  \E t, u \in MonThreads :
    /\ mpc[t] = "se_park"
    /\ t_state[t] = "TS_ENTER"
    /\ RawMonitor_lock = u
    /\ u # t

(***************************************************************************)
(* C34  lifetime of queue nodes                                            *)
(***************************************************************************)

\* The QNode of simple_enter() of thread u is linked or about to be
\* examined by its owner: u is between the push and the end of the park
\* loop.
InEnterNode(u) == mpc[u] \in {"se_recheck", "se_park"}

\* The QNode of simple_wait() of thread u exists and u has not unlinked it
\* yet.
InWaitNode(u) ==
  \/ mpc[u] \in {"sw_after_exit", "sw_park", "sw_postcheck", "dq_check",
                 "dq_lock"}
  \/ cont[u] = "sw_after_exit"

\* The elements of a sequence.
Members(q) == {q[i] : i \in 1..Len(q)}

\* C34: the nodes other threads reach (the nodes on _entry_list and on
\* _wait_set, and the node 'w' that simple_exit has unlinked and not yet
\* set to TS_RUN) belong to threads that are still inside the
\* simple_enter() or simple_wait() call that holds the node.
C34_NodeLifetime ==
  /\ \A u \in Members(entry_list) :
       InEnterNode(u) /\ t_state[u] = "TS_ENTER"
  /\ \A u \in Members(wait_set) :
       InWaitNode(u) /\ t_state[u] = "TS_WAIT"
  /\ \A t \in MonThreads :
       mpc[t] = "sx_setrun" =>
         /\ mpc[w[t]] = "se_park"
         /\ t_state[w[t]] = "TS_ENTER"
         /\ w[t] \notin Members(entry_list)

\* simple_exit() has unlinked the node of a parked thread and is about to
\* store TS_RUN in it, while the park event of that thread is already set.
C34_Witness ==
  \E t \in MonThreads :
    /\ mpc[t] = "sx_setrun"
    /\ mpc[w[t]] = "se_park"
    /\ park_event[w[t]]

(***************************************************************************)
(* C35  raw_notify and raw_notifyAll                                       *)
(***************************************************************************)

\* Thread t takes a step inside simple_notify().
NotifyStep(t) ==
  /\ mpc[t] \in {"sn_lock", "sn_loop", "sn_unpark"}
  /\ mpc'[t] # mpc[t] \/ (mpc[t] = "sn_loop" /\ wait_set' # wait_set)

\* One round of the loop of simple_notify() with a node on _wait_set.
RemovesNode(t) == NotifyStep(t) /\ mpc[t] = "sn_loop" /\ wait_set # << >>

\* C35: each round of simple_notify() unlinks the head of _wait_set and
\* stores TS_RUN in it; with all false there is one round, with all true
\* the rounds go on until the list is empty; the event of an unlinked node
\* is kept in ev and unparked when ev is given up, and no other event is
\* unparked; the nodes left on the list stay TS_WAIT; with an empty list
\* nothing changes; _owner and _recursions do not change.
C35_Notify ==
  [][\A t \in MonThreads :
       /\ RemovesNode(t) =>
            /\ wait_set' = Tail(wait_set)
            /\ t_state'[Head(wait_set)] = "TS_RUN"
            /\ ev'[t] = Head(wait_set)
            /\ mpc'[t] = IF all[t] THEN "sn_loop" ELSE "sn_unpark"
            /\ \A u \in Members(wait_set') : t_state'[u] = "TS_WAIT"
       /\ NotifyStep(t) =>
            /\ owner = t /\ UNCHANGED <<owner, recursions, entry_list>>
            /\ mpc[t] # "sn_loop" \/ wait_set = << >> =>
                 UNCHANGED <<wait_set, t_state>>
            /\ mpc'[t] = "sn_unpark" /\ all[t] => wait_set = << >>
            /\ \A u \in MonThreads :
                 /\ ev[t] = u /\ ev'[t] # u => park_event'[u]
                 /\ ev[t] # u => park_event'[u] = park_event[u]
            /\ mpc'[t] = "idle" => ev'[t] = NULL
       /\ (mpc[t] = "idle" /\ owner = t /\ wait_set = << >>) =>
            mpc'[t] # "sn_lock"]_vars

\* raw_notify has unlinked one of two waiting nodes: the other is still on
\* _wait_set in the state TS_WAIT.
C35_Witness ==
  /\ mpc[Notifier] = "sn_unpark"
  /\ ~ all[Notifier]
  /\ ev[Notifier] # NULL
  /\ Len(wait_set) = 1
  /\ t_state[Head(wait_set)] = "TS_WAIT"
  /\ t_state[ev[Notifier]] = "TS_RUN"

(***************************************************************************)
(* C36  raw_enter and external suspension                                  *)
(***************************************************************************)

\* raw_enter() of thread t returns with the monitor.
ReturnsFromEnter(t) == depth'[t] = depth[t] + 1

\* C36: raw_enter() of a JavaThread acquires the monitor for the first
\* time, and returns with it, only while no suspension is requested; when
\* a request has come in during simple_enter(), the thread gives the
\* monitor up with simple_exit(), stays suspended until it is resumed and
\* calls simple_enter() again.
C36_SuspendedEnter ==
  [][\A t \in MonThreads : is_Java_thread(t) =>
       /\ ReturnsFromEnter(t) => ~ external_suspend[t] /\ owner' = t
       /\ (mpc[t] = "idle" /\ mpc'[t] = "se_cas") => ~ external_suspend[t]
       /\ (mpc[t] = "re_after" /\ mpc'[t] # "re_after"
             /\ external_suspend[t])
            => /\ owner = t
               /\ mpc'[t] = "sx_release"
               /\ cont'[t] = "re_suspended"
               /\ depth'[t] = depth[t]
       /\ (mpc[t] = "re_suspended" /\ mpc'[t] # "re_suspended")
            => /\ ~ external_suspend[t]
               /\ owner # t
               /\ mpc'[t] = "se_cas"
               /\ cont'[t] = "re_after"]_vars

\* A JavaThread that was suspended while it was parked in simple_enter()
\* has given the monitor up and is suspended; another thread owns the
\* monitor.
C36_Witness ==
  \E t \in MonThreads :
    /\ is_Java_thread(t)
    /\ mpc[t] = "re_suspended"
    /\ external_suspend[t]
    /\ owner \notin {NULL, t}

(***************************************************************************)
(* C37  no lost wakeup on the entry list                                   *)
(***************************************************************************)

\* Thread u is inside park() of simple_enter() and its node is TS_ENTER.
ParkedInEntry(u) == mpc[u] = "se_park" /\ t_state[u] = "TS_ENTER"

\* Thread t is about to take the free monitor or to wake the head of
\* _entry_list: it is inside simple_enter() and not parked for good, or
\* inside simple_exit() after the store of NULL to _owner.
WakeForthcoming(t) ==
  \/ mpc[t] \in {"se_cas", "se_lock", "se_recheck"}
  \/ mpc[t] = "se_park" /\ t_state[t] = "TS_RUN"
  \/ mpc[t] \in {"sx_read", "sx_lock", "sx_setrun", "sx_unpark"}

\* The monitor is free while thread u is parked for it.
MissedBy(u) == owner = NULL /\ ParkedInEntry(u)

\* C37: whenever the monitor is free and a thread is parked on
\* _entry_list, some thread is on its way to take the monitor or to wake
\* the head of the list; and a state in which the monitor is free while a
\* thread is parked for it does not last.
C37_NoLostWakeup ==
  /\ [](\A u \in MonThreads :
          MissedBy(u) => \E t \in MonThreads : WakeForthcoming(t))
  /\ \A u \in MonThreads : MissedBy(u) ~> ~ MissedBy(u)

\* The owner has stored NULL to _owner and has not looked at _entry_list
\* yet, on which a thread is parked.
C37_Witness ==
  \E t, u \in MonThreads :
    /\ mpc[t] = "sx_read"
    /\ MissedBy(u)
    /\ entry_list # << >>

(***************************************************************************)
(* C38  no lost notification                                               *)
(***************************************************************************)

\* The node of thread u is on _wait_set.
OnWaitSet(u) == u \in Members(wait_set)

\* simple_notify() has unlinked the node of thread u, which has not left
\* park() of simple_wait() yet.
NotifiedInPark(u) == mpc[u] = "sw_park" /\ t_state[u] = "TS_RUN"

\* dequeue_waiter() of thread u has returned and simple_wait() has not.
PastDequeue(u) == cont[u] = "sw_reentered" \/ mpc[u] = "sw_reentered"

\* C38 as stated: a node is on _wait_set if and only if its state is
\* TS_WAIT.
C38_WaitingIffQueuedAsStated ==
  \A u \in MonThreads : OnWaitSet(u) <=> t_state[u] = "TS_WAIT"

\* C38: a node on _wait_set is TS_WAIT, and a node that is TS_WAIT is on
\* _wait_set unless its thread is in enqueue_waiter() and has not pushed
\* it yet; the event of a thread whose node simple_notify() unlinked is
\* set, or about to be unparked by the notifier, until the thread leaves
\* park(); after dequeue_waiter() the node is not on _wait_set; and a
\* thread whose node was unlinked leaves park().
C38_NoLostNotify ==
  /\ [](\A u \in MonThreads :
          /\ OnWaitSet(u) => t_state[u] = "TS_WAIT"
          /\ t_state[u] = "TS_WAIT" => OnWaitSet(u) \/ mpc[u] = "wq_lock"
          /\ NotifiedInPark(u) =>
               park_event[u] \/ \E t \in MonThreads : ev[t] = u
          /\ PastDequeue(u) => ~ OnWaitSet(u) /\ t_state[u] # "TS_WAIT")
  /\ \A u \in MonThreads : NotifiedInPark(u) ~> mpc[u] # "sw_park"

\* raw_notify has unlinked the node of a thread that waits without a
\* timeout and is inside park(); the unpark is still to come.
C38_Witness ==
  /\ NotifiedInPark(TheWaiter)
  /\ millis[TheWaiter] = 0
  /\ ~ park_event[TheWaiter]
  /\ ev[Notifier] = TheWaiter

(***************************************************************************)
(* C39  a free monitor has no recursions                                   *)
(***************************************************************************)

\* C39: whenever _owner is NULL, _recursions is 0, and no guarantee() of
\* raw_enter() fails.
C39_FreeMonitorZero ==
  /\ owner = NULL => recursions = 0
  /\ ~ aborted

(***************************************************************************)
(* C40  the tag of the wait barrier                                        *)
(***************************************************************************)

\* The barrier is armed for a safepoint.
TagArmed == arming.pc \in {"armed", "odd", "waiting", "even"}

\* C40: the tag the barrier is armed with, the int made from the even
\* counter plus one, is not 0, is the tag the blocking thread makes from
\* the odd counter it reads, and is not the tag of the safepoint before
\* (so neither is the tag of the next safepoint this one), also when the
\* low 32 bits or all 64 bits of the counter wrap around.
C40_BarrierTag ==
  /\ TagArmed => arming.barrier # 0
  /\ arming.pc \in {"waiting"} => arming.worker_tag = arming.barrier
  /\ (TagArmed /\ arming.runs > 0) => arming.barrier # arming.prev_tag
  /\ (~ TagArmed) => arming.barrier = 0

\* The low 32 bits of the counter have wrapped around between two
\* safepoints: the tag of the last one was -1, the barrier holds 1 now and
\* so does the thread that waits.
C40_Witness ==
  /\ arming.pc = "waiting"
  /\ arming.prev_tag = -1
  /\ arming.barrier = 1
  /\ arming.worker_tag = 1

====
